---- MODULE Spec2Model ----
(***************************************************************************)
(* Model of the xray-agent user-provisioning engine:                       *)
(*   app/api/agent.py            receive_command (add/remove/regenerate)   *)
(*   app/services/xray_api.py    add/remove/regenerate_user_via_api        *)
(*   app/services/xray_manager.py load/validate/save/reload, *_in_config   *)
(*   app/services/user_cache.py  UserCache                                 *)
(*   app/services/xray_grpc_client.py is_available / add_user / remove_user*)
(*   app/core/reality_config.py  the Reality store and its short ids      *)
(*   app/utils/retry.py          retry_with_backoff (with send_event)      *)
(*   app/main.py                 monitor_xray_status                       *)
(* Time is counted in minutes; a timestamp is kept as its age (now - t).   *)
(***************************************************************************)
EXTENDS Integers, Sequences, FiniteSets, TLC

VARIABLES
    file,              \* the persisted configuration (settings.xray_config_path)
    users,             \* UserCache._users
    last_sync,         \* age of UserCache._last_sync in minutes, NoneT if None
    last_xray_reload,  \* age of UserCache._last_xray_reload, NoneT if None
    last,              \* the command just handled, what it did and returned; Idle
                       \* once its response is delivered
    reload_issued,     \* minutes since reload_xray last ran the reload command,
                       \* NoneT if it never did
    adds_after_reload, \* add commands handled since, within ReloadWindow
    inflight,          \* requests received together and how far the event loop
                       \* has run the handler of each; NoRequests when commands
                       \* are looked at one by one
    reality,           \* the Reality store (REALITY_CONFIG_PATH), which holds the
                       \* short-identifier list
    retry,             \* one call of retry_with_backoff: its arguments, how far
                       \* it has run and how it ended; NoCall when none is followed
    monitor            \* the task monitor_xray_status: last_status, what the
                       \* polls observed and the events sent; NoMonitor when the
                       \* task is not followed

vars == <<file, users, last_sync, last_xray_reload, last, reload_issued,
          adds_after_reload, inflight, reality, retry, monitor>>

\* the background tasks, which share nothing with the command handlers
background == <<retry, monitor>>

----------------------------------------------------------------------------
(* Bounds of the model *)

\* longest clients list the model explores
MaxClients == 2
\* add commands counted after a reload
MaxAddsCounted == 2

----------------------------------------------------------------------------
(* Program constants *)

\* UserCache(sync_interval_minutes=5)
SyncInterval == 5
\* timedelta(minutes=1) of should_reload_xray
FreshWindow == 1
\* timedelta(minutes=5) of should_reload_xray
ReloadWindow == 5
\* maxTimeDiff written by the migration
StrictMaxTimeDiff == 10
\* one of the maxTimeDiff values (0, 30, 300) the migration rewrites
ObsoleteMaxTimeDiff == 300

\* datetime | None
NoneT == -1

\* request.email is None (or empty)
NoEmail == "none"

\* three well-formed UUIDs; the first two share their first 8 characters
Ids == {"11111111-a", "11111111-b", "22222222-c"}

\* user_uuid[:8]
Prefix8(id) == IF id = "22222222-c" THEN "22222222" ELSE "11111111"

\* f"user-{user_uuid[:8]}"
DefaultEmail(id) == IF Prefix8(id) = "11111111" THEN "user-11111111" ELSE "user-22222222"

\* labels a request may carry
Emails == {NoEmail, "a"}

\* email or f"user-{user_uuid[:8]}"
EmailToUse(id, email) == IF email = NoEmail THEN DefaultEmail(id) ELSE email

Labels == (Emails \ {NoEmail}) \cup {DefaultEmail(id) : id \in Ids}

\* new_client = {"id": ..., "email": ..., "flow": "xtls-rprx-vision"}
new_client(id, email) == [id |-> id, email |-> email, flow |-> "xtls-rprx-vision"]

----------------------------------------------------------------------------
(* The persisted configuration *)

\* what a config holds apart from the clients and maxTimeDiff of the managed
\* inbound: the other inbounds, the managed inbound's other settings and the
\* other top-level sections, each as the administrator wrote them
Found == [others |-> "found", settings |-> "found", sections |-> "found"]

\* the same parts as get_default_config() builds them: the api inbound, the
\* reality stream settings, log/stats/api/outbounds/routing
Default == [others |-> "default", settings |-> "default", sections |-> "default"]

\* a parsed config: does it hold a vless inbound, the clients of the first such
\* inbound, its realitySettings.maxTimeDiff, and the rest of the document
JsonFile(inbound, clients, mtd) ==
    [kind |-> "json", inbound |-> inbound, clients |-> clients, mtd |-> mtd,
     others |-> Found.others, settings |-> Found.settings, sections |-> Found.sections]

\* config_path.exists() is false
AbsentFile == [JsonFile(FALSE, <<>>, StrictMaxTimeDiff) EXCEPT !.kind = "absent"]

\* the file exists and json.load raises on it
CorruptFile == [JsonFile(FALSE, <<>>, StrictMaxTimeDiff) EXCEPT !.kind = "corrupt"]

\* get_default_config() when no file exists: a vless inbound, no clients,
\* maxTimeDiff 10, the default inbounds, settings and sections
get_default_config ==
    [JsonFile(TRUE, <<>>, StrictMaxTimeDiff) EXCEPT
         !.others = Default.others, !.settings = Default.settings,
         !.sections = Default.sections]

\* the persisted clients list of the managed inbound
Clients(f) == IF f.kind = "json" /\ f.inbound THEN f.clients ELSE <<>>

\* identifiers with an entry in a clients list
IdsOf(clients) == {clients[i].id : i \in 1..Len(clients)}

\* number of entries with this identifier
CountId(clients, id) == Cardinality({i \in 1..Len(clients) : clients[i].id = id})

\* number of entries with this label
CountEmail(clients, email) == Cardinality({i \in 1..Len(clients) : clients[i].email = email})

----------------------------------------------------------------------------
(* The environment of one command: what the external collaborators answer *)

Env == [grpc : {"down", "reject", "accept"},
        validation : {"valid", "invalid", "unavailable"},
        reload_ok : BOOLEAN]

\* the environments of a command that makes no control-channel call
EnvNoGrpc == {e \in Env : e.grpc = "down"}

\* the world a command runs in, with a record of what the command did: saves
\* written, reload commands issued (mig of them by the migration in load), the
\* outcome of the control-channel attempt, told: the running process was
\* told of the file's content by a delivered reload after the last save,
\* loads: calls of load_xray_config, asked: calls of should_reload_xray,
\* validated: what the validator answered when save asked it, restarted: how
\* the restart command of restart_xray ended, api: what add_user_via_api
\* returned to the handler, short_id: the handler's variable of that name
World == [file |-> file, users |-> users, last_sync |-> last_sync,
          last_xray_reload |-> last_xray_reload, reality |-> reality,
          saves |-> 0, reloads |-> 0, mig |-> 0, grpc |-> "none", told |-> FALSE,
          loads |-> 0, asked |-> 0, validated |-> "none", restarted |-> "none",
          api |-> "none", short_id |-> "none"]

----------------------------------------------------------------------------
(* reality_config.py *)

\* short_id = None
NoShortId == "none"

\* generate_short_id(): a random identifier, unlike any the store held
GeneratedShortId == "generated"

\* a Reality store that parses, with its short_ids list
RealityJson(short_ids) == [kind |-> "json", short_ids |-> short_ids]

\* REALITY_CONFIG_PATH does not exist
RealityAbsent == [kind |-> "absent", short_ids |-> <<>>]

\* REALITY_CONFIG_PATH exists and json.load raises on it
RealityCorrupt == [kind |-> "corrupt", short_ids |-> <<>>]

\* create_reality_config: new keys and one generated short identifier, saved
create_reality_config(w) ==
    [w EXCEPT !.reality = RealityJson(<<GeneratedShortId>>)]

\* load_reality_config: the store's content; a store that is missing or cannot
\* be parsed is replaced by a newly created one
load_reality_config(w) ==
    IF w.reality.kind = "json" THEN w ELSE create_reality_config(w)

\* get_reality_config
get_reality_config(w) == load_reality_config(w)

\* a reading that takes the newest entry of the list
read_short_id_last(w0) ==
    LET w == get_reality_config(w0)
    IN  [w EXCEPT !.short_id = IF w.reality.short_ids = <<>> THEN NoShortId
                               ELSE w.reality.short_ids[Len(w.reality.short_ids)]]

\* reality_config = get_reality_config(); short_ids = reality_config.get(
\* "short_ids", []); short_id = short_ids[0] if short_ids else None
read_short_id(w0) ==
    LET w == get_reality_config(w0)
    IN  [w EXCEPT !.short_id = IF w.reality.short_ids = <<>> THEN NoShortId
                               ELSE Head(w.reality.short_ids)]

\* what get_default_config does to the Reality store: it reads it, and when
\* the list of short identifiers is empty it generates one and saves the store
get_default_config_store(w0) ==
    LET w == get_reality_config(w0)
    IN  IF w.reality.short_ids = <<>>
        THEN [w EXCEPT !.reality = RealityJson(<<GeneratedShortId>>)]
        ELSE w

----------------------------------------------------------------------------
(* xray_manager.py *)

\* a validator that lets every config pass
validate_nothing(config, e) == TRUE

\* validate_xray_config: (True, None) when xray -test passes or cannot be run,
\* (False, msg) when it ran and rejected the config
validate_xray_config(config, e) ==
    CASE e.validation = "valid" -> TRUE
      [] e.validation = "invalid" -> FALSE
      [] e.validation = "unavailable" -> TRUE

\* save_xray_config: raise ValueError when validation fails, else write the file
save_xray_config(w, config, e) ==
    IF ~validate_xray_config(config, e)
    THEN [exc |-> TRUE, w |-> [w EXCEPT !.validated = e.validation]]
    ELSE [exc |-> FALSE, w |-> [w EXCEPT !.file = config, !.saves = @ + 1, !.told = FALSE,
                                         !.validated = e.validation]]

\* a reload_xray that stamps the registry's reload time when the command
\* succeeds
reload_xray_stamps(w, e) ==
    [ok |-> e.reload_ok,
     w |-> [w EXCEPT !.reloads = @ + 1, !.told = e.reload_ok,
                     !.last_xray_reload = IF e.reload_ok THEN 0 ELSE @]]

\* reload_xray: run the reload command; True iff it exits 0 in time.  A delivered
\* reload makes the process re-read the persisted file.
reload_xray(w, e) ==
    [ok |-> e.reload_ok,
     w |-> [w EXCEPT !.reloads = @ + 1, !.told = e.reload_ok]]

\* a load whose migration saves and reloads without rewriting maxTimeDiff
load_xray_config_no_rewrite(w0, e) ==
    LET w == [w0 EXCEPT !.loads = @ + 1]
    IN  IF w.file.kind = "absent" THEN [exc |-> FALSE, config |-> get_default_config, w |-> w]
        ELSE IF w.file.kind = "corrupt" THEN [exc |-> TRUE, config |-> w.file, w |-> w]
        ELSE IF w.file.inbound /\ w.file.mtd = ObsoleteMaxTimeDiff
        THEN LET s == save_xray_config(w, w.file, e)
                 r == reload_xray(s.w, e)
             IN  IF s.exc
                 THEN [exc |-> FALSE, config |-> w.file, w |-> s.w]
                 ELSE [exc |-> FALSE, config |-> w.file, w |-> [r.w EXCEPT !.mig = @ + 1]]
        ELSE [exc |-> FALSE, config |-> w.file, w |-> w]

\* load_xray_config: default config when the file is absent, json.load otherwise
\* (raising on an unparseable file), then the maxTimeDiff migration with its
\* save and reload inside try/except
load_xray_config(w0, e) ==
    LET w == [w0 EXCEPT !.loads = @ + 1]
    IN  IF w.file.kind = "absent"
        THEN [exc |-> FALSE, config |-> get_default_config, w |-> get_default_config_store(w)]
        ELSE IF w.file.kind = "corrupt" THEN [exc |-> TRUE, config |-> w.file, w |-> w]
        ELSE IF w.file.inbound /\ w.file.mtd = ObsoleteMaxTimeDiff
        THEN LET config == [w.file EXCEPT !.mtd = StrictMaxTimeDiff]
                 s == save_xray_config(w, config, e)
                 r == reload_xray(s.w, e)
             IN  IF s.exc
                 THEN [exc |-> FALSE, config |-> config, w |-> s.w]
                 ELSE [exc |-> FALSE, config |-> config, w |-> [r.w EXCEPT !.mig = @ + 1]]
        ELSE [exc |-> FALSE, config |-> w.file, w |-> w]

----------------------------------------------------------------------------
(* user_cache.py *)

\* UserCache.sync_from_config: rebuild the set from the file and stamp
\* _last_sync; an exception of load leaves the cache as it was
sync_from_config(w, e) ==
    LET r == load_xray_config(w, e)
    IN  IF r.exc THEN r.w
        ELSE [r.w EXCEPT !.users = IF r.config.inbound THEN IdsOf(r.config.clients) ELSE {},
                         !.last_sync = 0]

\* UserCache._maybe_sync
maybe_sync(w, e) ==
    IF w.last_sync = NoneT THEN sync_from_config(w, e)
    ELSE IF w.last_sync >= SyncInterval THEN sync_from_config(w, e)
    ELSE w

\* UserCache.exists: the world after the optional sync, and the membership
exists(w, id, check_sync, e) ==
    LET w1 == IF check_sync THEN maybe_sync(w, e) ELSE w
    IN  [w |-> w1, found |-> id \in w1.users]

\* an add that forgets to insert
cache_add_nothing(w, id) == w

\* UserCache.add
cache_add(w, id) == [w EXCEPT !.users = @ \cup {id}]

\* a remove that forgets to discard
cache_remove_nothing(w, id) == w

\* UserCache.remove
cache_remove(w, id) == [w EXCEPT !.users = @ \ {id}]

\* UserCache.mark_xray_reloaded: _last_xray_reload = datetime.now()
mark_xray_reloaded(w) == [w EXCEPT !.last_xray_reload = 0]

\* a should_reload_xray that looks at the config only, whatever the timestamps
should_reload_xray_no_window(w0, reload_age, user_uuid, e) ==
    LET w == [w0 EXCEPT !.asked = @ + 1]
        l == load_xray_config(w, e)
    IN  IF l.exc THEN [answer |-> FALSE, w |-> l.w]
        ELSE [answer |-> l.config.inbound /\ user_uuid \in IdsOf(l.config.clients),
              w |-> l.w]

\* UserCache.should_reload_xray, given the age of _last_xray_reload: False
\* within five minutes of a marked reload, False when the cache was synced less
\* than a minute ago and holds the user, otherwise True iff the loaded config
\* holds the user and no reload is marked or the mark is older than five minutes
should_reload_xray(w0, reload_age, user_uuid, e) ==
    LET w == [w0 EXCEPT !.asked = @ + 1]
        l == load_xray_config(w, e)
    IN  IF reload_age # NoneT /\ reload_age < ReloadWindow
        THEN [answer |-> FALSE, w |-> w]
        ELSE IF w.last_sync # NoneT /\ w.last_sync < FreshWindow /\ user_uuid \in w.users
        THEN [answer |-> FALSE, w |-> w]
        ELSE IF l.exc THEN [answer |-> FALSE, w |-> l.w]
        ELSE IF l.config.inbound /\ user_uuid \in IdsOf(l.config.clients)
        THEN [answer |-> reload_age = NoneT \/ reload_age > ReloadWindow, w |-> l.w]
        ELSE [answer |-> FALSE, w |-> l.w]

----------------------------------------------------------------------------
(* xray_grpc_client.py *)

\* XRayGRPCClient.is_available: the TCP probe
is_available(e) == e.grpc # "down"

\* the probe was made and found the control endpoint unreachable
probed_down(w) == [w EXCEPT !.grpc = "down"]

\* XRayGRPCClient.add_user: True iff AlterInbound(AddUserOperation) returned
grpc_add_user(w, id, e) ==
    [ok |-> e.grpc = "accept",
     w |-> [w EXCEPT !.grpc = e.grpc]]

\* XRayGRPCClient.remove_user: True iff AlterInbound(RemoveUserOperation) returned
grpc_remove_user(w, id, e) ==
    [ok |-> e.grpc = "accept",
     w |-> [w EXCEPT !.grpc = e.grpc]]

----------------------------------------------------------------------------
(* xray_api.py *)

\* update_inbound_via_api: a full inbound update is not supported, always False
update_inbound_via_api(inbound_config, tag) == FALSE

\* [c for c in clients if not (c.get("email") == email_to_use and c.get("id") != user_uuid)]
without_duplicate_email(clients, email_to_use, user_uuid) ==
    SelectSeq(clients, LAMBDA c : ~(c.email = email_to_use /\ c.id # user_uuid))

\* add_user_via_api giving up when the control channel is down or rejects
add_user_via_api_no_fallback(w, user_uuid, email, e) ==
    LET l == load_xray_config(w, e)
        config == l.config
        clients == config.clients
        email_to_use == EmailToUse(user_uuid, email)
        deduped == without_duplicate_email(clients, email_to_use, user_uuid)
        merged == [config EXCEPT
                       !.clients = Append(deduped, new_client(user_uuid, email_to_use))]
        g == grpc_add_user(l.w, user_uuid, e)
        s1 == save_xray_config(g.w, merged, e)
    IN  IF l.exc
        THEN [exc |-> TRUE, success |-> FALSE, used_grpc |-> FALSE, w |-> l.w]
        ELSE IF ~config.inbound
        THEN [exc |-> FALSE, success |-> FALSE, used_grpc |-> FALSE, w |-> l.w]
        ELSE IF user_uuid \in IdsOf(clients)
        THEN [exc |-> FALSE, success |-> TRUE, used_grpc |-> FALSE, w |-> l.w]
        ELSE IF is_available(e) /\ g.ok
        THEN IF s1.exc
             THEN [exc |-> TRUE, success |-> FALSE, used_grpc |-> FALSE, w |-> s1.w]
             ELSE [exc |-> FALSE, success |-> TRUE, used_grpc |-> TRUE,
                   w |-> cache_add(s1.w, user_uuid)]
        ELSE [exc |-> FALSE, success |-> FALSE, used_grpc |-> FALSE,
              w |-> IF is_available(e) THEN g.w ELSE probed_down(l.w)]

\* add_user_via_api saving the new entry without telling the registry
add_user_via_api_forgets_registry(w, user_uuid, email, e) ==
    LET l == load_xray_config(w, e)
        config == l.config
        clients == config.clients
        email_to_use == EmailToUse(user_uuid, email)
        deduped == without_duplicate_email(clients, email_to_use, user_uuid)
        merged == [config EXCEPT
                       !.clients = Append(deduped, new_client(user_uuid, email_to_use))]
        k == get_reality_config(l.w)
        g == grpc_add_user(k, user_uuid, e)
        s1 == save_xray_config(g.w, merged, e)
        s2 == save_xray_config(IF is_available(e) THEN g.w ELSE probed_down(k), merged, e)
    IN  IF l.exc
        THEN [exc |-> TRUE, success |-> FALSE, used_grpc |-> FALSE, w |-> l.w]
        ELSE IF ~config.inbound
        THEN [exc |-> FALSE, success |-> FALSE, used_grpc |-> FALSE, w |-> l.w]
        ELSE IF user_uuid \in IdsOf(clients)
        THEN [exc |-> FALSE, success |-> TRUE, used_grpc |-> FALSE, w |-> l.w]
        ELSE IF is_available(e) /\ g.ok
        THEN [exc |-> s1.exc, success |-> ~s1.exc, used_grpc |-> ~s1.exc, w |-> s1.w]
        ELSE [exc |-> s2.exc, success |-> ~s2.exc, used_grpc |-> FALSE, w |-> s2.w]

\* add_user_via_api: (success, used_grpc); exc when save_xray_config or
\* load_xray_config raised out of it.  It reads the Reality store once it has
\* found that the user has no entry.
add_user_via_api(w, user_uuid, email, e) ==
    LET l == load_xray_config(w, e)
        config == l.config
        clients == config.clients
        email_to_use == EmailToUse(user_uuid, email)
        deduped == without_duplicate_email(clients, email_to_use, user_uuid)
        merged == [config EXCEPT
                       !.clients = Append(deduped, new_client(user_uuid, email_to_use))]
        k == get_reality_config(l.w)
        g == grpc_add_user(k, user_uuid, e)
        s1 == save_xray_config(g.w, merged, e)
        s2 == save_xray_config(IF is_available(e) THEN g.w ELSE probed_down(k), merged, e)
    IN  IF l.exc
        THEN [exc |-> TRUE, success |-> FALSE, used_grpc |-> FALSE, w |-> l.w]
        ELSE IF ~config.inbound
        THEN [exc |-> FALSE, success |-> FALSE, used_grpc |-> FALSE, w |-> l.w]
        ELSE IF user_uuid \in IdsOf(clients)
        THEN [exc |-> FALSE, success |-> TRUE, used_grpc |-> FALSE, w |-> l.w]
        ELSE IF is_available(e) /\ g.ok
        THEN IF s1.exc
             THEN [exc |-> TRUE, success |-> FALSE, used_grpc |-> FALSE, w |-> s1.w]
             ELSE [exc |-> FALSE, success |-> TRUE, used_grpc |-> TRUE,
                   w |-> cache_add(s1.w, user_uuid)]
        ELSE IF s2.exc
             THEN [exc |-> TRUE, success |-> FALSE, used_grpc |-> FALSE, w |-> s2.w]
             ELSE [exc |-> FALSE, success |-> TRUE, used_grpc |-> FALSE,
                   w |-> cache_add(s2.w, user_uuid)]

\* remove_user_via_api: (success, used_grpc); (False, False) when the inbound or
\* the user is not in the loaded config
remove_user_via_api(w, user_uuid, e) ==
    LET l == load_xray_config(w, e)
        config == l.config
        clients == config.clients
        user_found == user_uuid \in IdsOf(clients)
        removed == [config EXCEPT
                       !.clients = SelectSeq(clients, LAMBDA c : c.id # user_uuid)]
        g == grpc_remove_user(l.w, user_uuid, e)
        s1 == save_xray_config(g.w, removed, e)
        s2 == save_xray_config(IF is_available(e) THEN g.w ELSE probed_down(l.w), removed, e)
    IN  IF l.exc
        THEN [exc |-> TRUE, success |-> FALSE, used_grpc |-> FALSE, w |-> l.w]
        ELSE IF ~config.inbound \/ ~user_found
        THEN [exc |-> FALSE, success |-> FALSE, used_grpc |-> FALSE, w |-> l.w]
        ELSE IF is_available(e) /\ g.ok
        THEN IF s1.exc
             THEN [exc |-> TRUE, success |-> FALSE, used_grpc |-> FALSE, w |-> s1.w]
             ELSE [exc |-> FALSE, success |-> TRUE, used_grpc |-> TRUE,
                   w |-> cache_remove(s1.w, user_uuid)]
        ELSE IF s2.exc
             THEN [exc |-> TRUE, success |-> FALSE, used_grpc |-> FALSE, w |-> s2.w]
             ELSE [exc |-> FALSE, success |-> TRUE, used_grpc |-> FALSE,
                   w |-> cache_remove(s2.w, user_uuid)]

\* regenerate_user_via_api updating the cache before the save is known to have
\* succeeded
regenerate_user_via_api_cache_first(w, old_user_uuid, new_user_uuid, email, e) ==
    LET l == load_xray_config(w, e)
        config == l.config
        kept == SelectSeq(config.clients, LAMBDA c : c.id # old_user_uuid)
        merged == [config EXCEPT
                       !.clients = Append(kept,
                           new_client(new_user_uuid, EmailToUse(new_user_uuid, email)))]
        c == cache_add(cache_remove(l.w, old_user_uuid), new_user_uuid)
        s == save_xray_config(c, merged, e)
    IN  IF l.exc THEN [exc |-> TRUE, success |-> FALSE, w |-> l.w]
        ELSE IF ~config.inbound THEN [exc |-> FALSE, success |-> FALSE, w |-> l.w]
        ELSE [exc |-> s.exc, success |-> ~s.exc, w |-> s.w]

\* regenerate_user_via_api trying the control channel for the new user before
\* it saves
regenerate_user_via_api_live(w, old_user_uuid, new_user_uuid, email, e) ==
    LET l == load_xray_config(w, e)
        config == l.config
        kept == SelectSeq(config.clients, LAMBDA c : c.id # old_user_uuid)
        merged == [config EXCEPT
                       !.clients = Append(kept,
                           new_client(new_user_uuid, EmailToUse(new_user_uuid, email)))]
        k == read_short_id(l.w)
        g == IF is_available(e) THEN grpc_add_user(k, new_user_uuid, e).w ELSE probed_down(k)
        s == save_xray_config(g, merged, e)
    IN  IF l.exc THEN [exc |-> TRUE, success |-> FALSE, w |-> l.w]
        ELSE IF ~config.inbound THEN [exc |-> FALSE, success |-> FALSE, w |-> l.w]
        ELSE [exc |-> s.exc, success |-> ~s.exc,
              w |-> IF s.exc THEN s.w
                    ELSE cache_add(cache_remove(s.w, old_user_uuid), new_user_uuid)]

\* regenerate_user_via_api writing a config rebuilt from the default one, with
\* the clients carried over
regenerate_user_via_api_rebuilds(w, old_user_uuid, new_user_uuid, email, e) ==
    LET l == load_xray_config(w, e)
        config == l.config
        kept == SelectSeq(config.clients, LAMBDA c : c.id # old_user_uuid)
        merged == [get_default_config EXCEPT
                       !.clients = Append(kept,
                           new_client(new_user_uuid, EmailToUse(new_user_uuid, email)))]
        s == save_xray_config(l.w, merged, e)
    IN  IF l.exc THEN [exc |-> TRUE, success |-> FALSE, w |-> l.w]
        ELSE IF ~config.inbound THEN [exc |-> FALSE, success |-> FALSE, w |-> l.w]
        ELSE [exc |-> s.exc, success |-> ~s.exc,
              w |-> IF s.exc THEN s.w
                    ELSE cache_add(cache_remove(s.w, old_user_uuid), new_user_uuid)]

\* regenerate_user_via_api: drop the old identifier's entries, read the short
\* identifier it returns with success, append the new entry, save, update the
\* cache; (False, None) only without a vless inbound
regenerate_user_via_api(w, old_user_uuid, new_user_uuid, email, e) ==
    LET l == load_xray_config(w, e)
        config == l.config
        kept == SelectSeq(config.clients, LAMBDA c : c.id # old_user_uuid)
        merged == [config EXCEPT
                       !.clients = Append(kept,
                           new_client(new_user_uuid, EmailToUse(new_user_uuid, email)))]
        s == save_xray_config(read_short_id(l.w), merged, e)
    IN  IF l.exc THEN [exc |-> TRUE, success |-> FALSE, w |-> l.w]
        ELSE IF ~config.inbound THEN [exc |-> FALSE, success |-> FALSE, w |-> l.w]
        ELSE IF update_inbound_via_api(merged, "vless")
        THEN [exc |-> s.exc, success |-> ~s.exc,
              w |-> IF s.exc THEN s.w
                    ELSE cache_add(cache_remove(s.w, old_user_uuid), new_user_uuid)]
        ELSE [exc |-> s.exc, success |-> ~s.exc,
              w |-> IF s.exc THEN s.w
                    ELSE cache_add(cache_remove(s.w, old_user_uuid), new_user_uuid)]

----------------------------------------------------------------------------
(* xray_manager.py, the config-only fallbacks the handler calls *)

\* remove_user_from_config: False when the inbound or the user is not found;
\* it saves and does not touch the cache
remove_user_from_config(w, user_uuid, e) ==
    LET l == load_xray_config(w, e)
        config == l.config
        kept == SelectSeq(config.clients, LAMBDA c : c.id # user_uuid)
        s == save_xray_config(l.w, [config EXCEPT !.clients = kept], e)
    IN  IF l.exc THEN [exc |-> TRUE, success |-> FALSE, w |-> l.w]
        ELSE IF ~config.inbound THEN [exc |-> FALSE, success |-> FALSE, w |-> l.w]
        ELSE IF Len(kept) = Len(config.clients)
        THEN [exc |-> FALSE, success |-> FALSE, w |-> l.w]
        ELSE [exc |-> s.exc, success |-> ~s.exc, w |-> s.w]

\* regenerate_user_in_config: False without a vless inbound; otherwise it saves
\* and then raises NameError at user_cache, a name xray_manager.py never binds
regenerate_user_in_config(w, old_user_uuid, new_user_uuid, email, e) ==
    LET l == load_xray_config(w, e)
        config == l.config
        kept == SelectSeq(config.clients, LAMBDA c : c.id # old_user_uuid)
        merged == [config EXCEPT
                       !.clients = Append(kept,
                           [id |-> new_user_uuid,
                            email |-> EmailToUse(new_user_uuid, email),
                            flow |-> "none"])]
        s == save_xray_config(read_short_id(l.w), merged, e)
    IN  IF l.exc THEN [exc |-> TRUE, success |-> FALSE, w |-> l.w]
        ELSE IF ~config.inbound THEN [exc |-> FALSE, success |-> FALSE, w |-> l.w]
        ELSE [exc |-> TRUE, success |-> FALSE, w |-> s.w]

\* xray_manager.py has no import and no assignment of the name user_cache
user_cache_bound == FALSE

\* restart_xray: run the restart command; on exit code 0 mark the reload in the
\* cache, sync the cache from the config and return True.  Evaluating the
\* unbound name user_cache raises NameError, which the except Exception clause
\* turns into False.  A restarted process has read the persisted file.
restart_xray(w0, restart_ok, e) ==
    LET w == [w0 EXCEPT !.restarted = IF restart_ok THEN "ok" ELSE "failed",
                        !.told = restart_ok]
    IN  IF ~restart_ok THEN [ok |-> FALSE, marked |-> FALSE, w |-> w]
        ELSE IF ~user_cache_bound THEN [ok |-> FALSE, marked |-> FALSE, w |-> w]
        ELSE [ok |-> TRUE, marked |-> TRUE,
              w |-> sync_from_config(mark_xray_reloaded(w), e)]

----------------------------------------------------------------------------
(* agent.py, receive_command: one operator per command branch.  result is     *)
(* "ok" (the success response), "fail" (an HTTPException) or "fault" (an      *)
(* exception that leaves the handler unhandled).                              *)

\* the add_user branch reloading after every add saved without the control call
receive_add_user_fallback_reloads(w, user_uuid, email, e) ==
    LET x == exists(w, user_uuid, TRUE, e)
        a == add_user_via_api(x.w, user_uuid, email, e)
        r == reload_xray(a.w, e)
    IN  IF x.found THEN [result |-> "ok", w |-> x.w]
        ELSE IF a.exc THEN [result |-> "fault", w |-> a.w]
        ELSE IF ~a.success THEN [result |-> "fail", w |-> a.w]
        ELSE IF a.used_grpc THEN [result |-> "ok", w |-> a.w]
        ELSE [result |-> IF r.ok THEN "ok" ELSE "fail", w |-> r.w]

\* the add_user branch without the registry short-circuit
receive_add_user_no_short_circuit(w, user_uuid, email, e) ==
    LET x == exists(w, user_uuid, TRUE, e)
        a == add_user_via_api(x.w, user_uuid, email, e)
        r == reload_xray(a.w, e)
    IN  IF a.exc THEN [result |-> "fault", w |-> a.w]
        ELSE IF ~a.success THEN [result |-> "fail", w |-> a.w]
        ELSE IF a.used_grpc THEN [result |-> "ok", w |-> a.w]
        ELSE IF ~exists(a.w, user_uuid, FALSE, e).found
        THEN [result |-> IF r.ok THEN "ok" ELSE "fail", w |-> r.w]
        ELSE [result |-> "ok", w |-> a.w]

\* what add_user_via_api handed to the handler
Returned(a) ==
    IF a.exc THEN "raised"
    ELSE IF ~a.success THEN "(False, False)"
    ELSE IF a.used_grpc THEN "(True, True)" ELSE "(True, False)"

\* the add_user branch without its reload: success whenever add_user_via_api
\* reported success
receive_add_user_never_reloads(w, user_uuid, email, e) ==
    LET x == exists(w, user_uuid, TRUE, e)
        a == add_user_via_api(x.w, user_uuid, email, e)
        aw == [a.w EXCEPT !.api = Returned(a)]
    IN  IF x.found THEN [result |-> "ok", w |-> read_short_id(x.w)]
        ELSE IF a.exc THEN [result |-> "fault", w |-> aw]
        ELSE IF ~a.success THEN [result |-> "fail", w |-> aw]
        ELSE [result |-> "ok", w |-> read_short_id(aw)]

\* the add_user branch: the registry short-circuit or add_user_via_api, on
\* success the short identifier for the response, then a reload if the live
\* path was not used and the registry does not hold the identifier
receive_add_user(w, user_uuid, email, e) ==
    LET x == exists(w, user_uuid, TRUE, e)
        a == add_user_via_api(x.w, user_uuid, email, e)
        aw == [a.w EXCEPT !.api = Returned(a)]
        sw == read_short_id(aw)
        r == reload_xray(sw, e)
    IN  IF x.found THEN [result |-> "ok", w |-> read_short_id(x.w)]
        ELSE IF a.exc THEN [result |-> "fault", w |-> aw]
        ELSE IF ~a.success THEN [result |-> "fail", w |-> aw]
        ELSE IF a.used_grpc THEN [result |-> "ok", w |-> sw]
        ELSE IF ~exists(sw, user_uuid, FALSE, e).found
        THEN [result |-> IF r.ok THEN "ok" ELSE "fail", w |-> r.w]
        ELSE [result |-> "ok", w |-> sw]

\* the remove_user branch reloading also after an accepted control call
receive_remove_user_always_reload(w, user_uuid, e) ==
    LET x == exists(w, user_uuid, TRUE, e)
        a == remove_user_via_api(x.w, user_uuid, e)
        r == reload_xray(a.w, e)
        c == remove_user_from_config(a.w, user_uuid, e)
        rc == reload_xray(c.w, e)
    IN  IF ~x.found THEN [result |-> "ok", w |-> x.w]
        ELSE IF a.exc THEN [result |-> "fault", w |-> a.w]
        ELSE IF a.success
        THEN [result |-> IF r.ok THEN "ok" ELSE "fail", w |-> r.w]
        ELSE IF c.exc THEN [result |-> "fault", w |-> c.w]
        ELSE IF c.success
        THEN [result |-> IF rc.ok THEN "ok" ELSE "fail", w |-> rc.w]
        ELSE [result |-> "fail", w |-> c.w]

\* the remove_user branch answering success after a failed reload command
receive_remove_user_ignores_reload(w, user_uuid, e) ==
    LET x == exists(w, user_uuid, TRUE, e)
        a == remove_user_via_api(x.w, user_uuid, e)
        r == reload_xray(a.w, e)
        c == remove_user_from_config(a.w, user_uuid, e)
        rc == reload_xray(c.w, e)
    IN  IF ~x.found THEN [result |-> "ok", w |-> x.w]
        ELSE IF a.exc THEN [result |-> "fault", w |-> a.w]
        ELSE IF a.success
        THEN IF a.used_grpc THEN [result |-> "ok", w |-> a.w]
             ELSE [result |-> "ok", w |-> r.w]
        ELSE IF c.exc THEN [result |-> "fault", w |-> c.w]
        ELSE IF c.success THEN [result |-> "ok", w |-> rc.w]
        ELSE [result |-> "fail", w |-> c.w]

\* the remove_user branch reloading also for a user the registry lacks
receive_remove_user_always_reloads(w, user_uuid, e) ==
    LET x == exists(w, user_uuid, TRUE, e)
        a == remove_user_via_api(x.w, user_uuid, e)
        r == reload_xray(a.w, e)
        c == remove_user_from_config(a.w, user_uuid, e)
        rc == reload_xray(c.w, e)
        rx == reload_xray(x.w, e)
    IN  IF ~x.found THEN [result |-> IF rx.ok THEN "ok" ELSE "fail", w |-> rx.w]
        ELSE IF a.exc THEN [result |-> "fault", w |-> a.w]
        ELSE IF a.success
        THEN IF a.used_grpc THEN [result |-> "ok", w |-> a.w]
             ELSE [result |-> IF r.ok THEN "ok" ELSE "fail", w |-> r.w]
        ELSE IF c.exc THEN [result |-> "fault", w |-> c.w]
        ELSE IF c.success
        THEN [result |-> IF rc.ok THEN "ok" ELSE "fail", w |-> rc.w]
        ELSE [result |-> "fail", w |-> c.w]

\* the remove_user branch
receive_remove_user(w, user_uuid, e) ==
    LET x == exists(w, user_uuid, TRUE, e)
        a == remove_user_via_api(x.w, user_uuid, e)
        r == reload_xray(a.w, e)
        c == remove_user_from_config(a.w, user_uuid, e)
        rc == reload_xray(c.w, e)
    IN  IF ~x.found THEN [result |-> "ok", w |-> x.w]
        ELSE IF a.exc THEN [result |-> "fault", w |-> a.w]
        ELSE IF a.success
        THEN IF a.used_grpc THEN [result |-> "ok", w |-> a.w]
             ELSE [result |-> IF r.ok THEN "ok" ELSE "fail", w |-> r.w]
        ELSE IF c.exc THEN [result |-> "fault", w |-> c.w]
        ELSE IF c.success
        THEN [result |-> IF rc.ok THEN "ok" ELSE "fail", w |-> rc.w]
        ELSE [result |-> "fail", w |-> c.w]

\* the regenerate_user branch reloading once for the removal and once for the
\* addition
receive_regenerate_user_two_reloads(w, old_user_uuid, user_uuid, email, e) ==
    LET a == regenerate_user_via_api(w, old_user_uuid, user_uuid, email, e)
        r1 == reload_xray(a.w, e)
        r2 == reload_xray(r1.w, e)
    IN  IF a.exc THEN [result |-> "fault", w |-> a.w]
        ELSE IF a.success THEN [result |-> "ok", w |-> r2.w]
        ELSE [result |-> "fail", w |-> a.w]

\* the regenerate_user branch: a failed reload after the config fallback is
\* only logged
receive_regenerate_user(w, old_user_uuid, user_uuid, email, e) ==
    LET a == regenerate_user_via_api(w, old_user_uuid, user_uuid, email, e)
        c == regenerate_user_in_config(a.w, old_user_uuid, user_uuid, email, e)
        rc == reload_xray(c.w, e)
    IN  IF a.exc THEN [result |-> "fault", w |-> a.w]
        ELSE IF a.success THEN [result |-> "ok", w |-> a.w]
        ELSE IF c.exc THEN [result |-> "fault", w |-> c.w]
        ELSE IF c.success THEN [result |-> "ok", w |-> rc.w]
        ELSE [result |-> "fail", w |-> c.w]

\* request.user_uuid / request.old_user_uuid is None
NoUuid == "null"

\* a text uuid.UUID() does not accept
NotAUuid == "not-a-uuid"

\* the identifiers a request may carry
UserUuids == Ids \cup {NoUuid, NotAUuid}

\* `not request.user_uuid`: None or the empty string
Missing(u) == u \in {NoUuid, ""}

\* uuid.UUID(u) raises ValueError: u, stripped of "urn:", "uuid:", braces and
\* hyphens, is not 32 hexadecimal digits
UUID_raises(u) == u \notin Ids

\* a named command other than restart_xray
UserCommands == {"add_user", "remove_user", "regenerate_user"}

\* the commands a request may name
Commands == UserCommands \cup {"flush_users"}

\* CommandRequest
CommandRequest(command, user_uuid, old_user_uuid, email) ==
    [command |-> command, user_uuid |-> user_uuid, old_user_uuid |-> old_user_uuid,
     email |-> email]

\* receive_command dispatching on the command name alone
receive_command_unchecked(w, request, e) ==
    IF request.command = "regenerate_user"
    THEN receive_regenerate_user(w, request.old_user_uuid, request.user_uuid,
                                 request.email, e)
    ELSE IF request.command = "add_user"
    THEN receive_add_user(w, request.user_uuid, request.email, e)
    ELSE receive_remove_user(w, request.user_uuid, e)

\* receive_command after the restart_xray branch: the checks of the
\* identifiers (HTTP 400 when one is missing or uuid.UUID rejects it), the
\* dispatch to the command's branch, HTTP 400 for an unknown command
receive_command(w, request, e) ==
    IF request.command = "regenerate_user"
    THEN IF Missing(request.old_user_uuid) \/ Missing(request.user_uuid)
         THEN [result |-> "fail", w |-> w]
         ELSE IF UUID_raises(request.old_user_uuid) \/ UUID_raises(request.user_uuid)
         THEN [result |-> "fail", w |-> w]
         ELSE receive_regenerate_user(w, request.old_user_uuid, request.user_uuid,
                                      request.email, e)
    ELSE IF Missing(request.user_uuid) THEN [result |-> "fail", w |-> w]
    ELSE IF UUID_raises(request.user_uuid) THEN [result |-> "fail", w |-> w]
    ELSE IF request.command = "add_user"
    THEN receive_add_user(w, request.user_uuid, request.email, e)
    ELSE IF request.command = "remove_user"
    THEN receive_remove_user(w, request.user_uuid, e)
    ELSE [result |-> "fail", w |-> w]

----------------------------------------------------------------------------
(* The state machine *)

\* clients lists of a given length with pairwise distinct identifiers and labels
RECURSIVE DistinctLists(_)
DistinctLists(n) ==
    IF n = 0 THEN {<<>>}
    ELSE {Append(s, new_client(id, em)) :
             s \in DistinctLists(n - 1), id \in Ids, em \in Labels} 

IsDistinct(clients) ==
    /\ \A id \in Ids : CountId(clients, id) <= 1
    /\ \A em \in Labels : CountEmail(clients, em) <= 1

\* the files the agent may find at start-up
InitFiles ==
    {AbsentFile, CorruptFile, JsonFile(FALSE, <<>>, StrictMaxTimeDiff)}
    \cup {JsonFile(TRUE, c, m) :
             c \in {s \in UNION {DistinctLists(n) : n \in 0..MaxClients} : IsDistinct(s)},
             m \in {StrictMaxTimeDiff, ObsoleteMaxTimeDiff}}

\* no command is being answered
Idle == [cmd |-> "idle", id |-> "-", old |-> "-", email |-> NoEmail, result |-> "ok",
         grpc |-> "none", saves |-> 0, reloads |-> 0, mig |-> 0, told |-> FALSE,
         reload_ok |-> TRUE, pre |-> <<>>,
         loads |-> 0, asked |-> 0, validation |-> "none", restarted |-> "none",
         api |-> "none", short_id |-> NoShortId]

\* no requests are followed through the event loop
NoRequests == [req |-> <<>>, base |-> <<>>]

\* no call of retry_with_backoff is followed
NoCall == [pc |-> "none"]

\* the task monitor_xray_status is not followed
NoMonitor == [pc |-> "none"]

\* a Reality store as the installation leaves it: readable, with short
\* identifiers
ReadableStore == RealityJson(<<"s1", "s2">>)

\* user_cache = UserCache(): empty set, no timestamps
Init ==
    /\ file \in InitFiles
    /\ users = {}
    /\ last_sync = NoneT
    /\ last_xray_reload = NoneT
    /\ reload_issued = NoneT
    /\ adds_after_reload = 0
    /\ inflight = NoRequests
    /\ reality = ReadableStore
    /\ retry = NoCall
    /\ monitor = NoMonitor
    /\ last = [Idle EXCEPT !.cmd = "init"]

\* a reload command was issued and less than ReloadWindow minutes have passed
InReloadWindow(age) == age # NoneT /\ age < ReloadWindow

\* a command ends: its effects on the world become the state, and last records
\* the request, the state it found (pre) and what it did
Record(cmd, id, old, email, e, o) ==
    /\ Len(o.w.file.clients) <= MaxClients
    /\ file' = o.w.file
    /\ users' = o.w.users
    /\ last_sync' = o.w.last_sync
    /\ last_xray_reload' = o.w.last_xray_reload
    /\ reality' = o.w.reality
    /\ last' = [cmd |-> cmd, id |-> id, old |-> old, email |-> email,
                result |-> o.result, grpc |-> o.w.grpc, saves |-> o.w.saves,
                reloads |-> o.w.reloads, mig |-> o.w.mig, told |-> o.w.told,
                reload_ok |-> (o.w.reloads = 0 \/ e.reload_ok),
                pre |-> [file |-> file, users |-> users, last_sync |-> last_sync,
                         reload_issued |-> reload_issued,
                         last_xray_reload |-> last_xray_reload, reality |-> reality],
                loads |-> o.w.loads, asked |-> o.w.asked, validation |-> o.w.validated,
                restarted |-> o.w.restarted, api |-> o.w.api,
                short_id |-> IF o.result = "ok" THEN o.w.short_id ELSE NoShortId]
    /\ reload_issued' = IF o.w.reloads > 0 THEN 0 ELSE reload_issued
    /\ adds_after_reload' =
           IF o.w.reloads > 0 THEN 0
           ELSE IF cmd = "add_user" /\ InReloadWindow(reload_issued)
                THEN IF adds_after_reload < MaxAddsCounted
                     THEN adds_after_reload + 1 ELSE adds_after_reload
                ELSE adds_after_reload

\* the end of a command that does not reach mark_xray_reloaded
Commit(cmd, id, old, email, e, o) ==
    /\ Record(cmd, id, old, email, e, o)
    /\ UNCHANGED <<inflight, background>>

\* main.py lifespan: user_cache.sync_from_config() before any request is served
Startup ==
    /\ last.cmd = "init"
    /\ \E e \in EnvNoGrpc :
          Commit("startup", "-", "-", NoEmail, e,
                 [result |-> "ok", w |-> sync_from_config(World, e)])

\* a well-formed identifier for the requests that are wrong in another respect
SomeId == CHOOSE id \in Ids : TRUE

\* the requests with a missing or malformed identifier or an unknown command
BadRequests ==
    {CommandRequest(c, u, NoUuid, NoEmail) :
         c \in {"add_user", "remove_user"}, u \in {NoUuid, NotAUuid}}
    \cup {r \in {CommandRequest("regenerate_user", u, o, NoEmail) :
                    u \in {SomeId, NoUuid, NotAUuid}, o \in {SomeId, NoUuid, NotAUuid}} :
              r.user_uuid \notin Ids \/ r.old_user_uuid \notin Ids}
    \cup {CommandRequest("flush_users", u, NoUuid, NoEmail) : u \in {SomeId, NoUuid}}

\* how last names a request of BadRequests
BadTag(command) ==
    CASE command = "add_user" -> "bad add_user"
      [] command = "remove_user" -> "bad remove_user"
      [] command = "regenerate_user" -> "bad regenerate_user"
      [] OTHER -> "unknown command"

BadTags == {BadTag(c) : c \in Commands}

\* the requests with well-formed identifiers: add_user, remove_user and
\* regenerate_user
GoodRequests ==
    {CommandRequest("add_user", id, NoUuid, email) : id \in Ids, email \in Emails}
    \cup {CommandRequest("remove_user", id, NoUuid, NoEmail) : id \in Ids}
    \cup {CommandRequest("regenerate_user", id, old, email) :
              id \in Ids, old \in Ids, email \in Emails}

\* the environment in which every collaborator is up and accepts
EnvAllUp == {e \in Env : e.grpc = "accept" /\ e.validation = "valid" /\ e.reload_ok}

\* the environments a request is handled in: regenerate_user makes no control
\* call, and a request that is to be rejected asks nothing of anybody
EnvsFor(request) ==
    IF request \in BadRequests THEN EnvAllUp
    ELSE IF request.command = "regenerate_user" THEN EnvNoGrpc
    ELSE Env

\* how last names the request: by its command, apart from those of BadRequests
Tag(request) ==
    IF request \in BadRequests THEN BadTag(request.command) ELSE request.command

\* the identifier last records as the old one: old_user_uuid of
\* regenerate_user, the identifier itself for add_user and remove_user
OldOf(request) ==
    IF request.command \in {"add_user", "remove_user"} /\ request \notin BadRequests
    THEN request.user_uuid
    ELSE request.old_user_uuid

\* POST /commands with add_user, remove_user, regenerate_user or an unknown
\* command, the collaborators answering as one of envs
ReceiveCommandIn(envs) ==
    /\ last.cmd = "idle"
    /\ \E request \in GoodRequests \cup BadRequests :
       \E e \in EnvsFor(request) \cap envs :
          Commit(Tag(request), request.user_uuid, OldOf(request), request.email, e,
                 receive_command(World, request, e))

\* POST /commands, whatever the collaborators answer
ReceiveCommand == ReceiveCommandIn(Env)

\* POST /commands {command: restart_xray}: success when restart_xray returns
\* True, the 500 failure response otherwise
RestartXray ==
    /\ last.cmd = "idle"
    /\ \E restart_ok \in BOOLEAN, e \in EnvNoGrpc :
          LET r == restart_xray(World, restart_ok, e)
          IN  /\ Record("restart_xray", "-", "-", NoEmail, e,
                        [result |-> IF r.ok THEN "ok" ELSE "fail", w |-> r.w])
              /\ UNCHANGED <<inflight, background>>

\* the response of the command is delivered; the handler has no await, so the
\* next request is taken up only now
Respond ==
    /\ last.cmd \notin {"init", "idle", "crash"}
    /\ last' = Idle
    /\ UNCHANGED <<file, users, last_sync, last_xray_reload, reload_issued,
                   adds_after_reload, inflight, reality, background>>

\* some command would write the file in this state: regenerate_user saves
\* whenever load_xray_config returns a config with the managed inbound, which
\* it does for such a file and, by the default config, for an absent file
SaveReachable == file.kind = "absent" \/ (file.kind = "json" /\ file.inbound)

\* the agent process dies while a command writes the file: save_xray_config has
\* opened config_path with mode "w", which truncates it, and json.dump has not
\* finished, so the file is empty or ends in the middle of the document and
\* json.load cannot parse it; the registry dies with the process
CrashInSave ==
    /\ last.cmd = "idle"
    /\ SaveReachable
    /\ file' = CorruptFile
    /\ users' = {}
    /\ last_sync' = NoneT
    /\ last' = [Idle EXCEPT !.cmd = "crash",
                            !.pre = [file |-> file, users |-> users,
                                     last_sync |-> last_sync,
                                     reload_issued |-> reload_issued,
                                     last_xray_reload |-> last_xray_reload,
                                     reality |-> reality]]
    /\ UNCHANGED <<last_xray_reload, reload_issued, adds_after_reload, inflight, reality, background>>

\* the agent is started again: a new process with user_cache = UserCache()
Restart ==
    /\ last.cmd = "crash"
    /\ last' = [Idle EXCEPT !.cmd = "init"]
    /\ UNCHANGED <<file, users, last_sync, last_xray_reload, reload_issued,
                   adds_after_reload, inflight, reality, background>>

\* a timestamp's age after d more minutes; ages past cap all behave alike
Aged(age, d, cap) == IF age = NoneT THEN NoneT ELSE IF age + d >= cap THEN cap ELSE age + d

\* time passes until an age reaches the next value it is compared with: 1
\* minute (should_reload_xray) and 5 minutes (_maybe_sync) for _last_sync, 5
\* minutes for the last reload command.  _last_xray_reload is stamped by
\* mark_xray_reloaded only, which restart_xray alone calls and never reaches,
\* so it stays None.
Tick ==
    /\ last.cmd = "idle"
    /\ \E d \in 1..SyncInterval :
          /\ \/ last_sync # NoneT /\ last_sync + d \in {FreshWindow, SyncInterval}
             \/ reload_issued # NoneT /\ reload_issued + d = ReloadWindow
          /\ last_sync' = Aged(last_sync, d, SyncInterval)
          /\ reload_issued' = Aged(reload_issued, d, ReloadWindow)
          /\ adds_after_reload' =
                 IF InReloadWindow(reload_issued') THEN adds_after_reload ELSE 0
    /\ UNCHANGED <<file, users, last_xray_reload, last, inflight, reality, background>>

Next ==
    \/ Startup \/ ReceiveCommand \/ RestartXray \/ Respond \/ Tick
    \/ CrashInSave \/ Restart

Spec == Init /\ [][Next]_vars

----------------------------------------------------------------------------
(* Reading the record of the command just handled *)

\* an environment in which nothing external fails: the validator accepts the
\* config and the reload command succeeds
Healthy(e) == e.validation = "valid" /\ e.reload_ok

\* a command of the given kind was just handled
Did(cmd) == last.cmd = cmd

\* the command just handled returned the success response
Ok == last.result = "ok"

\* the persisted clients list the command found, and the one it left
PreClients == Clients(last.pre.file)
PostClients == Clients(file)

\* the label the add just handled asked for
AskedEmail == EmailToUse(last.id, last.email)

\* an entry with another identifier carried the asked label when the add began
LabelConflict ==
    \E i \in 1..Len(PreClients) :
        PreClients[i].email = AskedEmail /\ PreClients[i].id # last.id

\* the identifiers (other than the added one) that carried the asked label
ConflictIds ==
    {PreClients[i].id : i \in {j \in 1..Len(PreClients) :
        PreClients[j].email = AskedEmail /\ PreClients[j].id # last.id}}

\* the entries of a list that belong neither to the added identifier nor to a
\* conflicting one
Others(clients) ==
    SelectSeq(clients, LAMBDA c : c.id # last.id /\ c.id \notin ConflictIds)

----------------------------------------------------------------------------
(* C1 to C10 *)

\* C1: add_user issued twice in a row with the same identifier returns success
\* both times, and afterwards the persisted clients list holds exactly one
\* entry with that identifier.  Stated here for a first add that succeeded and a
\* second add for which validation and reload succeed.
C1_IdempotentAdd ==
    Did("add_user") /\ Ok =>
        \A e2 \in Env :
            Healthy(e2) =>
                LET o2 == receive_add_user(World, last.id, last.email, e2)
                IN  o2.result = "ok" /\ CountId(Clients(o2.w.file), last.id) = 1

\* C2: remove_user for an identifier with no entry in the persisted clients
\* list returns success and leaves the list unchanged, also when the registry
\* still holds the identifier.
C2_IdempotentRemove ==
    Did("remove_user") /\ last.id \notin IdsOf(PreClients) =>
        Ok /\ PostClients = PreClients

\* C3: every identifier in the registry has an entry in the persisted clients
\* list.
C3_RegistrySubset == users \subseteq IdsOf(Clients(file))

\* C4: when an add, remove or replace returns success and changed the
\* persisted clients list, the change reached the live process: the control
\* call was accepted, or a reload was delivered after the save (every reload
\* command issued having succeeded).
C4_ViewConvergence ==
    /\ last.cmd \in {"add_user", "remove_user", "regenerate_user"}
    /\ Ok /\ last.reload_ok
    /\ PostClients # PreClients
    => last.grpc = "accept" \/ last.told

\* C5: when add_user returns success for an identifier, the persisted clients
\* list holds an entry with it as the command returns.
C5_AddDurable == Did("add_user") /\ Ok => last.id \in IdsOf(PostClients)

\* C6 as stated: when remove_user returns success, the persisted list has no
\* entry with the identifier, the registry does not hold it, and the remove
\* issued a reload command exactly when the user was present and the live path
\* was not used to remove it.
C6_RemovePersists_AsStated ==
    Did("remove_user") /\ Ok =>
        /\ last.id \notin IdsOf(PostClients)
        /\ last.id \notin users
        /\ last.reloads > 0 <=>
               (last.id \in IdsOf(PreClients) /\ last.grpc # "accept")

\* C6 amended: the same, counting the reload commands the remove issued apart
\* from the one the maxTimeDiff migration of load_xray_config issues.
C6_RemovePersists ==
    Did("remove_user") /\ Ok =>
        /\ last.id \notin IdsOf(PostClients)
        /\ last.id \notin users
        /\ last.reloads - last.mig > 0 <=>
               (last.id \in IdsOf(PreClients) /\ last.grpc # "accept")
        /\ last.reloads - last.mig <= 1

\* C6 witness: a remove of a present user fell back after a rejected control
\* call, saved, reloaded and returned success.
C6_Witness ==
    /\ Did("remove_user") /\ Ok
    /\ last.id \in IdsOf(PreClients)
    /\ last.grpc = "reject" /\ last.reloads = 1 /\ last.mig = 0

\* C7: after a successful add of B, which has no entry in the persisted list,
\* with a label that an entry of a different identifier A carried, the list
\* holds B's entry with that label, no entry for A, and all other entries.
C7_LabelConflict ==
    Did("add_user") /\ Ok /\ LabelConflict /\ last.id \notin IdsOf(PreClients) =>
        /\ \E i \in 1..Len(PostClients) :
               PostClients[i].id = last.id /\ PostClients[i].email = AskedEmail
        /\ ConflictIds \cap IdsOf(PostClients) = {}
        /\ Others(PostClients) = Others(PreClients)

\* C8: no two entries of the persisted clients list carry the same label.
C8_LabelsUnique == \A em \in Labels : CountEmail(Clients(file), em) <= 1

\* C9: no two entries of the persisted clients list have the same identifier.
C9_IdsUnique == \A id \in Ids : CountId(Clients(file), id) <= 1

\* the persisted list reflects the add or remove just handled
Reflected ==
    IF Did("add_user") THEN last.id \in IdsOf(PostClients)
    ELSE last.id \notin IdsOf(PostClients)

----------------------------------------------------------------------------
(* C11 to C20 *)

\* the control channel was probed for the command just handled and was found
\* down, or the control call was made and failed
LiveFailed == last.grpc \in {"down", "reject"}

\* the registry holds the added identifier, or has lost the removed one
RegistryUpdated ==
    IF Did("add_user") THEN last.id \in users ELSE last.id \notin users

\* C11: the control client's add_user and remove_user report failure instead of
\* raising, and the engine then still saves the merged config and updates the
\* registry: an add or remove whose control channel was down or rejected the
\* call returns success, has written the change and updated the registry,
\* unless the validator rejected the config or the reload command failed.
C11_LiveFailureDegrades ==
    /\ last.cmd \in {"add_user", "remove_user"}
    /\ LiveFailed
    /\ last.validation # "invalid"
    /\ last.reload_ok
    => /\ Ok
       /\ last.saves - last.mig = 1
       /\ Reflected
       /\ RegistryUpdated

\* C11 witness: an add whose control call was rejected was saved through the
\* fallback and returned success.
C11_Witness ==
    /\ Did("add_user") /\ last.grpc = "reject" /\ Ok
    /\ last.id \notin IdsOf(PreClients)
    /\ last.id \in IdsOf(PostClients)
    /\ last.id \in users

\* what should_reload_xray answers for the identifier of the command just
\* handled, asked in the state the command left
ShouldReloadSaysYes ==
    \A e \in Env : should_reload_xray(World, last_xray_reload, last.id, e).answer

\* C12: an add whose control channel was down or rejected the call saves the
\* merged config, updates the registry, consults should_reload_xray for the
\* identifier, and issues a reload command of its own only if the answer was
\* true.
C12_AddFallbackReloadDecision ==
    Did("add_user") /\ LiveFailed /\ last.validation # "invalid" =>
        /\ last.saves - last.mig = 1
        /\ last.id \in users
        /\ last.asked > 0
        /\ last.reloads - last.mig > 0 => ShouldReloadSaysYes

\* the persisted list after a replace: the entries found, without those of the
\* old identifier, in their order, followed by an entry of the new identifier
ReplacedInOnePass ==
    /\ Len(PostClients) > 0
    /\ PostClients[Len(PostClients)].id = last.id
    /\ SubSeq(PostClients, 1, Len(PostClients) - 1) =
           SelectSeq(PreClients, LAMBDA c : c.id # last.old)

C14_NoDoubleReload == Did("regenerate_user") => last.reloads <= 1

\* C14 witness: a replace of an existing old identifier during which a reload
\* command was issued.
C14_Witness ==
    /\ Did("regenerate_user") /\ Ok
    /\ last.old \in IdsOf(PreClients)
    /\ last.reloads = 1

\* the command just handled began less than ReloadWindow minutes after a
\* reload command had been issued
BeganInReloadWindow == InReloadWindow(last.pre.reload_issued)

C16_SuppressionWindow ==
    /\ last.cmd \in {"add_user", "remove_user", "regenerate_user"}
    /\ BeganInReloadWindow
    => last.reloads = 0

\* the world the command just handled began in
PreWorld ==
    [World EXCEPT !.file = last.pre.file, !.users = last.pre.users,
                  !.last_sync = last.pre.last_sync,
                  !.last_xray_reload = last.pre.last_xray_reload,
                  !.reality = last.pre.reality]

\* the registry was due for a refresh when the command began
SyncDue == last.pre.last_sync = NoneT \/ last.pre.last_sync >= SyncInterval

\* user_cache.exists(id, check_sync=True) answered True at the start of the
\* command just handled (the answer does not depend on the environment)
RegistryReported == \A e \in EnvNoGrpc : exists(PreWorld, last.id, TRUE, e).found

\* C17 as stated: when the registry reports the identifier present at the start
\* of an add, the add returns success with no control call, no save and no
\* reload, and leaves the persisted list and the registry set unchanged.
C17_ShortCircuitNoOp_AsStated ==
    Did("add_user") /\ RegistryReported =>
        /\ Ok
        /\ last.grpc = "none"
        /\ last.saves = 0
        /\ last.reloads = 0
        /\ PostClients = PreClients
        /\ users = last.pre.users

\* C17 amended: the same, apart from the refresh that exists() makes first when
\* the registry is due for one: the refresh may rebuild the set from the config
\* and run the maxTimeDiff migration of load_xray_config with its save and
\* reload.  Without a refresh due, nothing at all is loaded, saved, reloaded or
\* changed.
C17_ShortCircuitNoOp ==
    Did("add_user") /\ RegistryReported =>
        /\ Ok
        /\ last.grpc = "none"
        /\ last.saves = last.mig
        /\ last.reloads = last.mig
        /\ PostClients = PreClients
        /\ ~SyncDue =>
              /\ last.loads = 0 /\ last.saves = 0 /\ last.reloads = 0
              /\ users = last.pre.users
              /\ file = last.pre.file

\* C17 witness: an add for an identifier the registry and the config held took
\* the short-circuit.
C17_Witness ==
    /\ Did("add_user") /\ RegistryReported /\ ~SyncDue /\ Ok
    /\ last.id \in last.pre.users
    /\ last.id \in IdsOf(PreClients)
    /\ last.loads = 0

\* the registry set as the command just handled first saw it: rebuilt from the
\* config by exists() when a sync was due (add and remove), as found otherwise
RefreshedUsers ==
    IF Did("regenerate_user") THEN last.pre.users
    ELSE LET e == CHOOSE x \in Env : TRUE
         IN  maybe_sync(PreWorld, e).users

\* C18: in every add, remove and replace, the registry gains or loses an
\* identifier (beyond the refresh exists() makes from the config) only when the
\* save of the command's config has returned; when the validator rejects the
\* config, so that save raises, the registry is left as it was.
C18_WriteBeforeCache ==
    last.cmd \in {"add_user", "remove_user", "regenerate_user"} =>
        /\ users # RefreshedUsers => last.saves - last.mig >= 1
        /\ last.validation = "invalid" => users = RefreshedUsers

\* C18 witness: an add whose control call was accepted and whose save raised
\* left the registry without the identifier.
C18_Witness ==
    /\ Did("add_user") /\ last.grpc = "accept"
    /\ last.validation = "invalid" /\ last.result = "fault"
    /\ last.id \notin users
    /\ users = last.pre.users

\* save_xray_config, called in the state reached with any config and any answer
\* of the validator, raises exactly when the validator ran and rejected the
\* config, then leaves the file as it is, and writes the config otherwise (it
\* makes no control call, so the answers of the control channel play no part);
\* looked at between commands, where a handler and its saves start: delivering
\* a response changes nothing that save reads
SaveIsGated ==
    last.cmd = "idle" =>
    \A e \in EnvNoGrpc : \A config \in {get_default_config, [get_default_config EXCEPT !.mtd = ObsoleteMaxTimeDiff]} :
        LET s == save_xray_config(World, config, e)
        IN  /\ s.exc <=> e.validation = "invalid"
            /\ s.exc => s.w.file = file
            /\ ~s.exc => s.w.file = config

\* C19: save writes the config file only if the validation passed or could not
\* be performed; when the validator ran and rejected the config, save raises
\* and the file keeps its content.  For the saves of the command just handled
\* (or of the start-up sync) and for a save called in the state reached.
C19_ValidationGatesWrite ==
    /\ SaveIsGated
    /\ last.cmd \in {"startup", "add_user", "remove_user", "regenerate_user"} =>
          /\ last.validation = "invalid" => last.saves = 0 /\ file = last.pre.file
          /\ last.validation \in {"valid", "unavailable"} =>
                last.saves >= 1 /\ file.kind = "json"
          /\ last.saves >= 1 => last.validation \in {"valid", "unavailable"}

\* C19 witness: a remove of a present user whose save the validator rejected
\* ended in the error of save with the file untouched.
C19_Witness ==
    /\ Did("remove_user") /\ last.validation = "invalid"
    /\ last.id \in IdsOf(PreClients)
    /\ last.result = "fault"
    /\ file = last.pre.file

\* C20: whenever the process died during a save, the file holds a complete
\* configuration (the previous or the new one), never an empty or partly
\* written one.
C20_AtomicPersist ==
    Did("crash") => file.kind = "json" \/ file = last.pre.file

----------------------------------------------------------------------------
(* C21 to C30 *)

\* C21: load never fails on a missing or unreadable file: when the config file
\* is absent or cannot be parsed, load_xray_config returns a default
\* configuration holding the managed inbound instead of raising.
C21_LoadNeverFails ==
    file.kind \in {"absent", "corrupt"} =>
        \A e \in Env :
            LET l == load_xray_config(World, e)
            IN  ~l.exc /\ l.config.kind = "json" /\ l.config.inbound

\* C22: every add, remove and replace command ends with a definite success or
\* failure result; an exception raised in the live path, the save or the
\* reload path is turned into a failure result and never leaves the handler
\* unhandled.
C22_CleanFailure ==
    last.cmd \in {"add_user", "remove_user", "regenerate_user"} =>
        last.result \in {"ok", "fail"}

\* the command just handled wrote its change and then issued a reload command
\* of its own (apart from the save and reload of the maxTimeDiff migration,
\* which precede the change), and that reload command did not succeed
PersistedButNotReloaded ==
    /\ last.saves - last.mig >= 1
    /\ last.reloads - last.mig >= 1
    /\ ~last.reload_ok

\* C23: whenever an add, remove or replace has persisted its change and the
\* reload command it then issued did not succeed, the command returns failure.
C23_PartialSuccessFails ==
    /\ last.cmd \in {"add_user", "remove_user", "regenerate_user"}
    /\ PersistedButNotReloaded
    => last.result = "fail"

\* C23 witness: a remove of a present user was saved through the fallback, its
\* reload command failed and the command returned failure with the entry gone
\* from the file.
C23_Witness ==
    /\ Did("remove_user") /\ PersistedButNotReloaded
    /\ last.id \in IdsOf(PreClients)
    /\ last.id \notin IdsOf(PostClients)
    /\ last.result = "fail"

\* C24: when the external restart command exits successfully, restart_xray
\* reports success (so the command returns success), the registry set equals
\* the identifier set of the persisted clients list, and _last_xray_reload and
\* _last_sync are stamped with the current time.
C24_RestartResyncs ==
    Did("restart_xray") /\ last.restarted = "ok" =>
        /\ Ok
        /\ users = IdsOf(Clients(file))
        /\ last_sync = 0
        /\ last_xray_reload = 0

----------------------------------------------------------------------------
(* Two requests received together, followed through the event loop.          *)
(* receive_command is an "async def" endpoint: each request is a coroutine   *)
(* on the one event loop, which can switch to another coroutine only where   *)
(* the running one awaits.                                                   *)

\* the two requests in flight
Slots == {1, 2}

\* what the collaborators answer to a request in flight
ConcEnv == {e \in Env : e.validation = "valid" /\ e.reload_ok /\ e.grpc # "reject"}

\* the requests that can arrive: queued, nothing loaded yet, no result yet
Requests ==
    {[cmd |-> "add_user", id |-> id, old |-> id, email |-> email, e |-> e,
      pc |-> "queued", loaded |-> AbsentFile, result |-> "none"] :
         id \in Ids, email \in Emails, e \in ConcEnv}
    \cup {[cmd |-> "remove_user", id |-> id, old |-> id, email |-> NoEmail, e |-> e,
           pc |-> "queued", loaded |-> AbsentFile, result |-> "none"] :
              id \in Ids, e \in ConcEnv}
    \cup {[cmd |-> "regenerate_user", id |-> id, old |-> old, email |-> email, e |-> e,
           pc |-> "queued", loaded |-> AbsentFile, result |-> "none"] :
              id \in Ids, old \in Ids, email \in Emails, e \in ConcEnv \cap EnvNoGrpc}

\* the config files the two requests may find: at most one client
ConcFiles ==
    {JsonFile(TRUE, c, StrictMaxTimeDiff) : c \in DistinctLists(0) \cup DistinctLists(1)}

\* the agent has started and synced its registry; two requests have arrived
ConcInit ==
    /\ file \in ConcFiles
    /\ users = IdsOf(Clients(file))
    /\ last_sync = 0
    /\ last_xray_reload = NoneT
    /\ reload_issued = NoneT
    /\ adds_after_reload = 0
    /\ last = Idle
    /\ reality = ReadableStore
    /\ retry = NoCall
    /\ monitor = NoMonitor
    /\ \E r1 \in Requests, r2 \in Requests :
          inflight = [req |-> <<r1, r2>>,
                      base |-> [file |-> file, users |-> users, last_sync |-> last_sync]]

\* the handler of a request, run on a world
Handle(w, r) ==
    CASE r.cmd = "add_user" -> receive_add_user(w, r.id, r.email, r.e)
      [] r.cmd = "remove_user" -> receive_remove_user(w, r.id, r.e)
      [] r.cmd = "regenerate_user" ->
             receive_regenerate_user(w, r.old, r.id, r.email, r.e)

\* an event loop that could leave a handler between its load and its save
CanStartAnytime(s) == TRUE

\* the event loop starts the coroutine of a queued request only when no other
\* coroutine is in the middle of its run: receive_command and everything it
\* calls contain no await, so a started handler runs to its return
CanStart(s) == \A t \in Slots \ {s} : inflight.req[t].pc # "running"

\* the handler of request s starts and loads the config
Start(s) ==
    /\ inflight.req[s].pc = "queued"
    /\ CanStart(s)
    /\ inflight' = [inflight EXCEPT !.req[s].pc = "running", !.req[s].loaded = file]
    /\ UNCHANGED <<file, users, last_sync, last_xray_reload, last, reload_issued,
                   adds_after_reload, reality, background>>

\* the handler of request s does the rest of its work on the config it loaded:
\* mutate, control call, save, registry update, reload, response
Finish(s) ==
    /\ inflight.req[s].pc = "running"
    /\ \E r \in {inflight.req[s]} :
       \E o \in {Handle([World EXCEPT !.file = r.loaded], r)} :
       \E written \in {IF o.w.saves > 0 THEN o.w.file ELSE file} :
          /\ Record(r.cmd, r.id, r.old, r.email, r.e, [o EXCEPT !.w.file = written])
          /\ inflight' = [inflight EXCEPT !.req[s].pc = "done",
                                          !.req[s].result = o.result]
          /\ UNCHANGED background

ConcNext == \E s \in Slots : Start(s) \/ Finish(s)

ConcSpec == ConcInit /\ [][ConcNext]_vars

\* the world a handler leaves, as the next handler finds it
Fresh(w) == [World EXCEPT !.file = w.file, !.users = w.users, !.last_sync = w.last_sync]

\* the persisted clients list after handling the two requests one after the
\* other, starting from the state they arrived in
SerialClients(first, second) ==
    LET o1 == Handle(Fresh(inflight.base), inflight.req[first])
        o2 == Handle(Fresh(o1.w), inflight.req[second])
    IN  Clients(o2.w.file)

\* both requests in flight have been answered
BothDone == inflight # NoRequests /\ \A s \in Slots : inflight.req[s].pc = "done"

----------------------------------------------------------------------------

\* the file holds a managed inbound whose maxTimeDiff is one of the obsolete
\* values
HasObsoleteValue(f) == f.kind = "json" /\ f.inbound /\ f.mtd = ObsoleteMaxTimeDiff

\* a load of the file as it is now writes and reloads nothing and returns the
\* file's content
LaterLoadsAreQuiet(w) ==
    \A e2 \in EnvNoGrpc :
        LET l2 == load_xray_config(Fresh(w), e2)
        IN  l2.w.saves = 0 /\ l2.w.reloads = 0 /\ l2.config = w.file

\* C26 as stated: loading a config file whose maxTimeDiff is obsolete rewrites
\* it to 10 and triggers exactly one save followed by one reload, and every
\* later load of the file written triggers no save and no reload.
C26_OneTimeMigration_AsStated ==
    HasObsoleteValue(file) =>
        \A e \in EnvNoGrpc :
            LET l == load_xray_config(World, e)
            IN  /\ l.config.mtd = StrictMaxTimeDiff
                /\ l.w.saves = 1 /\ l.w.reloads = 1
                /\ l.w.file = [file EXCEPT !.mtd = StrictMaxTimeDiff]
                /\ LaterLoadsAreQuiet(l.w)

\* C26 amended: the same unless the validator rejects the rewritten config.
\* Then load still returns the config with the value 10, but nothing is saved,
\* no reload is issued and the file keeps the obsolete value, so that the next
\* load tries the migration again.  The save precedes the reload; the start-up
\* sync, which loads once, shows the same counts.
C26_OneTimeMigration ==
    /\ HasObsoleteValue(file) =>
          \A e \in EnvNoGrpc :
              LET l == load_xray_config(World, e)
              IN  /\ ~l.exc /\ l.config.mtd = StrictMaxTimeDiff
                  /\ e.validation # "invalid" =>
                        /\ l.w.saves = 1 /\ l.w.reloads = 1
                        /\ l.w.told = e.reload_ok
                        /\ l.w.file = [file EXCEPT !.mtd = StrictMaxTimeDiff]
                        /\ LaterLoadsAreQuiet(l.w)
                  /\ e.validation = "invalid" =>
                        /\ l.w.saves = 0 /\ l.w.reloads = 0
                        /\ l.w.file = file
    /\ Did("startup") /\ HasObsoleteValue(last.pre.file) /\ last.validation # "invalid" =>
          /\ last.saves = 1 /\ last.reloads = 1 /\ last.mig = 1
          /\ file = [last.pre.file EXCEPT !.mtd = StrictMaxTimeDiff]
          /\ LaterLoadsAreQuiet(World)

\* C26 witness: the start-up sync loaded a file with the obsolete value, and
\* the migration saved the rewritten file and issued one reload.
C26_Witness ==
    /\ Did("startup") /\ HasObsoleteValue(last.pre.file)
    /\ last.saves = 1 /\ last.reloads = 1 /\ last.mig = 1
    /\ file.mtd = StrictMaxTimeDiff
    /\ Len(Clients(file)) > 0

----------------------------------------------------------------------------

\* C27: an add, remove or replace request whose identifier (for replace,
\* either identifier) is missing or not a UUID that uuid.UUID accepts, and a
\* request naming an unknown command, is rejected; the persisted config, the
\* registry set and both registry timestamps are unchanged, and no control call
\* is made, nothing is loaded or saved and no reload is issued.
C27_MalformedRejected ==
    last.cmd \in BadTags =>
        /\ last.result = "fail"
        /\ file = last.pre.file
        /\ users = last.pre.users
        /\ last_sync = last.pre.last_sync
        /\ last_xray_reload = last.pre.last_xray_reload
        /\ reload_issued = last.pre.reload_issued
        /\ last.grpc = "none"
        /\ last.loads = 0 /\ last.saves = 0 /\ last.reloads = 0

\* C27 witness: an add request carrying a text that is not a UUID was rejected
\* while the registry was due for a refresh and the file held clients.
C27_Witness ==
    /\ last.cmd = "bad add_user" /\ last.id = NotAUuid
    /\ last.result = "fail"
    /\ SyncDue
    /\ Len(Clients(file)) > 0

\* the command just handled found a parsed config without a managed inbound
NoInboundFound == last.pre.file.kind = "json" /\ ~last.pre.file.inbound

\* C28: when the persisted configuration contains no inbound of the managed
\* protocol, every add, remove and replace command is rejected with a failure
\* result and changes neither the persisted config nor the registry set.
C28_MissingInboundFatal ==
    last.cmd \in UserCommands /\ NoInboundFound =>
        /\ last.result = "fail"
        /\ file = last.pre.file
        /\ users = last.pre.users

----------------------------------------------------------------------------

\* the registry was never populated or its last sync is SyncInterval old
Stale == last_sync = NoneT \/ last_sync >= SyncInterval

\* C29: exists(id, check_sync=True), called when the registry was never
\* populated or _last_sync is at least five minutes old, first rebuilds the set
\* to exactly the identifier set of the persisted clients list and sets
\* _last_sync to now, then reports membership; called with check_sync=False, or
\* with a fresh registry, it answers from the held set without reading the
\* config.  So an add or remove handled when a sync was due leaves _last_sync
\* freshly stamped.
C29_StalenessResync ==
    /\ \A id \in Ids, e \in Env :
          LET x == exists(World, id, TRUE, e)
              y == exists(World, id, FALSE, e)
          IN  /\ Stale =>
                    /\ x.w.users = IdsOf(Clients(x.w.file))
                    /\ x.w.last_sync = 0
                    /\ x.found <=> id \in IdsOf(Clients(x.w.file))
              /\ ~Stale => x.w = World /\ (x.found <=> id \in users)
              /\ y.w = World /\ (y.found <=> id \in users)
    /\ last.cmd \in {"add_user", "remove_user"} /\ SyncDue => last_sync = 0

----------------------------------------------------------------------------
(* The UserCache object on its own: its methods called in any order.  No      *)
(* command handler calls should_reload_xray, and mark_xray_reloaded is        *)
(* called from restart_xray only, so the decision table of should_reload_xray *)
(* is examined on the states the methods of the class can produce.            *)

\* the config files the cache may read: at most one client
CacheFiles ==
    {AbsentFile, CorruptFile, JsonFile(FALSE, <<>>, StrictMaxTimeDiff)}
    \cup {JsonFile(TRUE, c, m) :
             c \in DistinctLists(0) \cup DistinctLists(1),
             m \in {StrictMaxTimeDiff, ObsoleteMaxTimeDiff}}

\* user_cache = UserCache()
CacheInit ==
    /\ file \in CacheFiles
    /\ users = {}
    /\ last_sync = NoneT
    /\ last_xray_reload = NoneT
    /\ reload_issued = NoneT
    /\ adds_after_reload = 0
    /\ inflight = NoRequests
    /\ reality = ReadableStore
    /\ retry = NoCall
    /\ monitor = NoMonitor
    /\ last = Idle

\* user_cache.sync_from_config()
CacheSync ==
    /\ last.cmd = "idle"
    /\ \E e \in EnvNoGrpc :
          Commit("sync_from_config", "-", "-", NoEmail, e,
                 [result |-> "ok", w |-> sync_from_config(World, e)])

\* user_cache.add(id)
CacheAdd ==
    /\ last.cmd = "idle"
    /\ \E id \in Ids : users' = cache_add(World, id).users
    /\ UNCHANGED <<file, last_sync, last_xray_reload, last, reload_issued,
                   adds_after_reload, inflight, reality, background>>

\* user_cache.remove(id)
CacheRemove ==
    /\ last.cmd = "idle"
    /\ \E id \in Ids : users' = cache_remove(World, id).users
    /\ UNCHANGED <<file, last_sync, last_xray_reload, last, reload_issued,
                   adds_after_reload, inflight, reality, background>>

\* user_cache.mark_xray_reloaded(): self._last_xray_reload = datetime.now()
CacheMarkReloaded ==
    /\ last.cmd = "idle"
    /\ last_xray_reload' = mark_xray_reloaded(World).last_xray_reload
    /\ UNCHANGED <<file, users, last_sync, last, reload_issued, adds_after_reload,
                   inflight, reality, background>>

\* user_cache.should_reload_xray(id); last.result is the answer
CacheAsk ==
    /\ last.cmd = "idle"
    /\ \E id \in Ids, e \in EnvNoGrpc :
          LET a == should_reload_xray(World, last_xray_reload, id, e)
          IN  Commit("should_reload_xray", id, id, NoEmail, e,
                     [result |-> IF a.answer THEN "yes" ELSE "no", w |-> a.w])

\* the answer of the method is returned
CacheReturn ==
    /\ last.cmd # "idle"
    /\ last' = Idle
    /\ UNCHANGED <<file, users, last_sync, last_xray_reload, reload_issued,
                   adds_after_reload, inflight, reality, background>>

\* a minute passes; _last_xray_reload is compared with five minutes by < and
\* by >, so its age is followed up to one minute past the window
CacheTick ==
    /\ last.cmd = "idle"
    /\ last_sync' = Aged(last_sync, 1, SyncInterval)
    /\ last_xray_reload' = Aged(last_xray_reload, 1, ReloadWindow + 1)
    /\ reload_issued' = Aged(reload_issued, 1, ReloadWindow)
    /\ UNCHANGED <<file, users, last, adds_after_reload, inflight, reality, background>>

CacheNext ==
    \/ CacheSync \/ CacheAdd \/ CacheRemove \/ CacheMarkReloaded \/ CacheAsk
    \/ CacheReturn \/ CacheTick

CacheSpec == CacheInit /\ [][CacheNext]_vars

\* should_reload_xray was asked while _last_xray_reload was less than five
\* minutes old
AskedInReloadWindow == InReloadWindow(last.pre.last_xray_reload)

\* ... while the registry had been synced less than a minute before and held
\* the identifier
AskedFreshAndHeld ==
    /\ last.pre.last_sync # NoneT /\ last.pre.last_sync < FreshWindow
    /\ last.id \in last.pre.users

----------------------------------------------------------------------------
(* C31 to C39 *)

\* the config load_xray_config returned to the command just handled: the
\* default config for an absent file, else the file's content with an obsolete
\* maxTimeDiff rewritten (what load returns does not depend on the answers of
\* the validator or the reload command)
LoadedConfig == load_xray_config(PreWorld, CHOOSE e \in EnvNoGrpc : TRUE).config

\* C31: every save performed by add, remove or replace changes only the clients
\* array of the managed inbound: the other inbounds, that inbound's other
\* settings and the other top-level sections of the loaded configuration are
\* written back unchanged, and maxTimeDiff is written as load returned it.
C31_MutationFrame ==
    last.cmd \in UserCommands /\ last.saves >= 1 =>
        LET loaded == LoadedConfig
        IN  /\ file.kind = "json" /\ file.inbound
            /\ file.others = loaded.others
            /\ file.settings = loaded.settings
            /\ file.sections = loaded.sections
            /\ file.mtd = loaded.mtd
            /\ [file EXCEPT !.clients = loaded.clients] = loaded

\* C31 witness: a replace saved a changed clients list into a file that held
\* two clients and inbounds, settings and sections of the administrator's.
C31_Witness ==
    /\ Did("regenerate_user") /\ Ok /\ last.saves = 1
    /\ last.pre.file.kind = "json"
    /\ PostClients # PreClients
    /\ Len(PreClients) = 2
    /\ file.sections = Found.sections /\ file.others = Found.others

----------------------------------------------------------------------------
(* The agent with the Reality store in any condition: missing, unreadable,   *)
(* with an empty list of short identifiers, with one or with two.            *)

\* the stores the agent may find
RealityStores ==
    {RealityAbsent, RealityCorrupt, RealityJson(<<>>), RealityJson(<<"s1">>),
     ReadableStore}

\* the config files the agent may find
RealityFiles ==
    {AbsentFile, JsonFile(FALSE, <<>>, StrictMaxTimeDiff)}
    \cup {JsonFile(TRUE, c, StrictMaxTimeDiff) : c \in DistinctLists(0) \cup DistinctLists(1)}

\* the collaborators of the commands followed here: the validator accepts and
\* the reload command succeeds
RealityEnv == {e \in Env : e.validation = "valid" /\ e.reload_ok}

RealityInit ==
    /\ file \in RealityFiles
    /\ reality \in RealityStores
    /\ users = {}
    /\ last_sync = NoneT
    /\ last_xray_reload = NoneT
    /\ reload_issued = NoneT
    /\ adds_after_reload = 0
    /\ inflight = NoRequests
    /\ retry = NoCall
    /\ monitor = NoMonitor
    /\ last = [Idle EXCEPT !.cmd = "init"]

RealityNext == Startup \/ ReceiveCommandIn(RealityEnv) \/ Respond

RealitySpec == RealityInit /\ [][RealityNext]_vars

\* short_ids[0] if short_ids else None, of the store as it is
FirstShortId(store) ==
    IF store.kind # "json" \/ store.short_ids = <<>> THEN NoShortId
    ELSE Head(store.short_ids)

\* the response of the command just handled carries the short identifier: a
\* successful add or replace
HandsOutShortId == last.cmd \in {"add_user", "regenerate_user"} /\ Ok

\* C32 as stated: every successful add and replace returns the first entry of
\* the short-identifier list (none if it is empty), and no add, remove or
\* replace command modifies that list.
C32_SharedShortId_AsStated ==
    last.cmd \in UserCommands =>
        /\ HandsOutShortId => last.short_id = FirstShortId(reality)
        /\ reality = last.pre.reality

\* C32 amended: a successful add or replace returns the first entry of the
\* list as it stands when the command returns.  No command modifies a readable
\* store whose list is not empty, nor any readable store once the config file
\* exists.  A missing or unreadable store is replaced by a new one with one
\* generated identifier by the first command that reads it, and loading the
\* default config of an absent file fills an empty list with a generated one.
\* After a successful add or replace the config file exists and the store is
\* readable, so the list no longer changes and all users receive the same
\* short identifier.
C32_SharedShortId ==
    last.cmd \in UserCommands =>
        /\ HandsOutShortId =>
              /\ last.short_id = FirstShortId(reality)
              /\ reality.kind = "json" /\ file.kind = "json"
        /\ last.pre.reality.kind = "json" /\ last.pre.reality.short_ids # <<>> =>
              reality = last.pre.reality
        /\ last.pre.reality.kind = "json" /\ last.pre.file.kind = "json" =>
              reality = last.pre.reality
        /\ reality # last.pre.reality => reality = RealityJson(<<GeneratedShortId>>)

\* C32 witness: an add that found no Reality store created one and returned
\* the identifier generated for it.
C32_Witness ==
    /\ Did("add_user") /\ Ok
    /\ last.pre.reality = RealityAbsent
    /\ reality = RealityJson(<<GeneratedShortId>>)
    /\ last.short_id = GeneratedShortId

----------------------------------------------------------------------------

\* add_user_via_api found the identifier in the config it loaded and returned
\* (True, False) without saving anything
FoundInConfig == last.api = "(True, False)" /\ last.saves = last.mig

\* C33: once the start-up sync has run, and with only the agent writing the
\* config file, every identifier with an entry in the persisted clients list is
\* in the registry set after every add, remove and replace command; so an add
\* that the registry did not short-circuit never finds the user in the config.
C33_RegistryCoversConfig ==
    /\ last.cmd \in UserCommands => IdsOf(Clients(file)) \subseteq users
    /\ Did("add_user") /\ ~RegistryReported =>
          last.id \notin IdsOf(PreClients) /\ ~FoundInConfig

\* C33 witness: an add took the label of another user's entry, which left the
\* config; the registry still holds that user and covers the config.
C33_Witness ==
    /\ Did("add_user") /\ Ok /\ LabelConflict
    /\ last.id \in IdsOf(PostClients)
    /\ IdsOf(PostClients) \subseteq users
    /\ IdsOf(PostClients) # users

----------------------------------------------------------------------------
(* The agent beside an administrator who edits the config file by hand: the  *)
(* file can then hold a user the registry has not heard of.                  *)

\* the config files the agent may find: a managed inbound without clients
DriftFiles ==
    {JsonFile(TRUE, <<>>, m) : m \in {StrictMaxTimeDiff, ObsoleteMaxTimeDiff}}

DriftInit ==
    /\ file \in DriftFiles
    /\ users = {}
    /\ last_sync = NoneT
    /\ last_xray_reload = NoneT
    /\ reload_issued = NoneT
    /\ adds_after_reload = 0
    /\ inflight = NoRequests
    /\ reality = ReadableStore
    /\ retry = NoCall
    /\ monitor = NoMonitor
    /\ last = [Idle EXCEPT !.cmd = "init"]

\* the administrator writes an entry for a new user into the clients list of
\* the managed inbound; the agent is not told
ExternalEdit ==
    /\ last.cmd = "idle"
    /\ file.kind = "json" /\ file.inbound
    /\ Len(file.clients) < MaxClients
    /\ \E id \in Ids \ IdsOf(file.clients) :
          file' = [file EXCEPT !.clients = Append(@, new_client(id, DefaultEmail(id)))]
    /\ \A em \in Labels : CountEmail(file'.clients, em) <= 1
    /\ UNCHANGED <<users, last_sync, last_xray_reload, last, reload_issued,
                   adds_after_reload, inflight, reality, background>>

DriftNext == Startup \/ ReceiveCommandIn(Env) \/ Respond \/ ExternalEdit

DriftSpec == DriftInit /\ [][DriftNext]_vars

\* the reload commands the handler of the command issued itself: all but the
\* one of the maxTimeDiff migration in load_xray_config
HandlerReloads == last.reloads - last.mig

\* add_user_via_api wrote the new entry without the control call having been
\* accepted, and returned (True, False)
NewlyWrittenOnFallback == last.api = "(True, False)" /\ last.saves - last.mig = 1

----------------------------------------------------------------------------

\* the config the command just handled loaded holds the managed inbound: the
\* file does, or the file is absent and the default config stands in for it
ManagedInboundExists ==
    \/ last.pre.file.kind = "absent"
    \/ last.pre.file.kind = "json" /\ last.pre.file.inbound

\* the registry after a replace: the new identifier in, the old one out
RegistryReplaced ==
    /\ last.id \in users
    /\ last.old # last.id => last.old \notin users

----------------------------------------------------------------------------

\* the worlds a repeated command can run in: the present one, at once or after
\* the registry's sync interval has elapsed
RetryWorlds == {World, [World EXCEPT !.last_sync = SyncInterval]}

\* the remove just handled went the fallback way, saved the config without the
\* identifier, took it out of the registry, and its reload command failed
RemoveSavedReloadFailed ==
    /\ Did("remove_user") /\ PersistedButNotReloaded
    /\ last.id \in IdsOf(PreClients) /\ last.id \notin IdsOf(PostClients)
    /\ last.id \notin users

\* C36: when a remove on the fallback path has saved the config and updated the
\* registry but its reload command failed, the command returned failure, and a
\* repeated remove of the same identifier finds it absent from the registry,
\* returns success, and issues no reload command and no save.
C36_RetryAfterFailedReload ==
    RemoveSavedReloadFailed =>
        /\ last.result = "fail"
        /\ \A w \in RetryWorlds : \A e \in EnvNoGrpc :
              LET again == receive_remove_user(w, last.id, e)
              IN  /\ ~exists(w, last.id, TRUE, e).found
                  /\ again.result = "ok"
                  /\ again.w.reloads = 0
                  /\ again.w.saves = 0
                  /\ again.w.file = file

\* C36 witness: a remove that saved the config without the identifier and
\* whose reload command failed has returned failure.
C36_Witness ==
    /\ RemoveSavedReloadFailed
    /\ last.result = "fail" /\ last.grpc # "accept"
    /\ last.saves = 1 /\ last.reloads = 1

----------------------------------------------------------------------------

\* the command just handled was an add, a remove or a replace
UserCommand == last.cmd \in {"add_user", "remove_user", "regenerate_user"}

\* what the reload command can answer, the other collaborators not being asked
ReloadEnv == {e \in EnvNoGrpc : e.validation = "valid"}

----------------------------------------------------------------------------
(* utils/retry.py: retry_with_backoff, and its caller send_event of         *)
(* services/core_api_client.py.  Delays are counted in seconds.  One call   *)
(* is followed from its arguments to its end; the command handlers do not   *)
(* use it, so the rest of the state stands still.                           *)

\* largest max_retries a followed call is given
MaxRetries == 3

\* the arguments of the followed calls: send_event passes max_retries=2,
\* initial_delay=1.0 and leaves backoff_factor at its default 2.0
RetryArgs ==
    [max_retries : 0..MaxRetries, initial_delay : {1, 2}, backoff_factor : {2, 3}]

\* what one await func() does: it returns a value (_send: True on status 200,
\* False on another status that raise_for_status lets pass) or raises
FuncOutcomes == {"True", "False", "raise"}

RECURSIVE Pow(_, _)
\* b to the power k
Pow(b, k) == IF k = 0 THEN 1 ELSE b * Pow(b, k - 1)

\* retry_with_backoff was called: delay = initial_delay, the loop not entered
RetryCalled(a) ==
    [pc |-> "for", args |-> a, attempt |-> 0, delay |-> a.initial_delay,
     calls |-> <<>>, waits |-> <<>>, outcome |-> "running"]

RetryInit ==
    /\ file = AbsentFile
    /\ users = {}
    /\ last_sync = NoneT
    /\ last_xray_reload = NoneT
    /\ reload_issued = NoneT
    /\ adds_after_reload = 0
    /\ inflight = NoRequests
    /\ reality = ReadableStore
    /\ monitor = NoMonitor
    /\ last = [Idle EXCEPT !.cmd = "init"]
    /\ \E a \in RetryArgs : retry = RetryCalled(a)

\* the rest of the agent's state, untouched by the retry helper
NotRetry == <<file, users, last_sync, last_xray_reload, last, reload_issued,
              adds_after_reload, inflight, reality, monitor>>

\* for attempt in range(max_retries): the next iteration starts
RetryIterate ==
    /\ retry.pc = "for"
    /\ retry.attempt < retry.args.max_retries
    /\ retry' = [retry EXCEPT !.pc = "try"]
    /\ UNCHANGED NotRetry

\* range(max_retries) is exhausted: return None
RetryFallsThrough ==
    /\ retry.pc = "for"
    /\ retry.attempt >= retry.args.max_retries
    /\ retry' = [retry EXCEPT !.pc = "done", !.outcome = "None"]
    /\ UNCHANGED NotRetry

\* return await func(*args, **kwargs): the call returns a value
RetryFuncReturns ==
    /\ retry.pc = "try"
    /\ \E v \in FuncOutcomes \ {"raise"} :
          retry' = [retry EXCEPT !.pc = "done", !.outcome = v,
                                 !.calls = Append(@, v)]
    /\ UNCHANGED NotRetry

\* the call raises: on the final attempt the exception is re-raised, before
\* that the helper goes on to sleep
RetryFuncRaises ==
    /\ retry.pc = "try"
    /\ retry' = IF retry.attempt = retry.args.max_retries - 1
                THEN [retry EXCEPT !.pc = "done", !.outcome = "raised",
                                   !.calls = Append(@, "raise")]
                ELSE [retry EXCEPT !.pc = "sleep", !.calls = Append(@, "raise")]
    /\ UNCHANGED NotRetry

\* await asyncio.sleep(delay); delay *= backoff_factor; next attempt
RetrySleep ==
    /\ retry.pc = "sleep"
    /\ retry' = [retry EXCEPT !.pc = "for",
                              !.waits = Append(@, retry.delay),
                              !.delay = @ * retry.args.backoff_factor,
                              !.attempt = @ + 1]
    /\ UNCHANGED NotRetry

\* send_event: result if result is not None else False, and False for any
\* exception that retry_with_backoff let out
SendEventReturns ==
    /\ retry.pc = "done"
    /\ retry' = [retry EXCEPT !.pc = "send_event returned",
                              !.outcome = IF retry.outcome = "True"
                                          THEN "True" ELSE "False"]
    /\ UNCHANGED NotRetry

RetryNext ==
    \/ RetryIterate \/ RetryFallsThrough \/ RetryFuncReturns \/ RetryFuncRaises
    \/ RetrySleep \/ SendEventReturns

RetrySpec == RetryInit /\ [][RetryNext]_vars

\* retry_with_backoff has ended and its caller has not yet looked at the end
RetryEnded == retry.pc = "done"

\* every call of the function raised
EveryAttemptRaised == \A i \in 1..Len(retry.calls) : retry.calls[i] = "raise"

\* the number of calls of the function that raised
FailedAttempts == Cardinality({i \in 1..Len(retry.calls) : retry.calls[i] = "raise"})

\* C38 as stated: retry_with_backoff calls the function at most max_retries
\* times, stops at and returns the result of the first call that does not
\* raise, waits initial_delay multiplied by backoff_factor to the power k after
\* the k-th failed attempt (k from 0), and when every attempt raised it returns
\* None.
C38_RetryWithBackoff ==
    RetryEnded =>
        /\ Len(retry.calls) <= retry.args.max_retries
        /\ \A i \in 1..Len(retry.calls) :
              retry.calls[i] # "raise" =>
                  i = Len(retry.calls) /\ retry.outcome = retry.calls[i]
        /\ Len(retry.waits) = FailedAttempts
        /\ \A k \in 0..(Len(retry.waits) - 1) :
              retry.waits[k + 1] =
                  retry.args.initial_delay * Pow(retry.args.backoff_factor, k)
        /\ EveryAttemptRaised => retry.outcome = "None"

----------------------------------------------------------------------------
(* main.py: the background task monitor_xray_status.  One task is followed  *)
(* through its polls; it reads the proxy's status and touches nothing of    *)
(* the command handlers' state.                                             *)

\* polls followed
MaxPolls == 5

\* what a poll can observe: status_info.get("xray_running", False)
Observations == {"True", "False"}

\* a condition that alerts on every poll that observes the proxy stopped
xray_stopped_level(last_status, xray_running) == xray_running = "False"

\* if last_status is True and not xray_running
xray_stopped(last_status, xray_running) ==
    last_status = "True" /\ xray_running = "False"

\* the task was created: last_status = None, nothing observed, nothing sent;
\* client: core_api_client is set (a Core API address is configured)
MonitorStarted(client) ==
    [pc |-> "sleep", client |-> client, last_status |-> "None",
     xray_running |-> "None", alerted |-> FALSE, wakes |-> 0,
     observed |-> <<>>, sent |-> <<>>, delivered |-> <<>>]

MonitorInit ==
    /\ file = AbsentFile
    /\ users = {}
    /\ last_sync = NoneT
    /\ last_xray_reload = NoneT
    /\ reload_issued = NoneT
    /\ adds_after_reload = 0
    /\ inflight = NoRequests
    /\ reality = ReadableStore
    /\ retry = NoCall
    /\ last = [Idle EXCEPT !.cmd = "init"]
    /\ \E client \in BOOLEAN : monitor = MonitorStarted(client)

\* the rest of the agent's state, untouched by the monitor
NotMonitor == <<file, users, last_sync, last_xray_reload, last, reload_issued,
                adds_after_reload, inflight, reality, retry>>

\* await asyncio.sleep(settings.xray_check_interval) returns
MonitorWake ==
    /\ monitor.pc = "sleep"
    /\ monitor.wakes < MaxPolls
    /\ monitor' = [monitor EXCEPT !.pc = "woke", !.wakes = @ + 1]
    /\ UNCHANGED NotMonitor

\* if core_api_client: is false, the iteration does nothing
MonitorSkip ==
    /\ monitor.pc = "woke"
    /\ ~monitor.client
    /\ monitor' = [monitor EXCEPT !.pc = "sleep"]
    /\ UNCHANGED NotMonitor

\* status_info = get_xray_status(); xray_running = status_info.get(...)
MonitorObserve ==
    /\ monitor.pc = "woke"
    /\ monitor.client
    /\ \E running \in Observations :
          monitor' = [monitor EXCEPT !.pc = "observed", !.xray_running = running]
    /\ UNCHANGED NotMonitor

\* the condition holds: send_event("xray_stopped") is awaited; it returns True
\* or False and never raises, and its result is not looked at
MonitorAlert ==
    /\ monitor.pc = "observed"
    /\ xray_stopped(monitor.last_status, monitor.xray_running)
    /\ \E ok \in BOOLEAN :
          monitor' = [monitor EXCEPT !.pc = "assign", !.alerted = TRUE,
                                     !.delivered = Append(@, ok)]
    /\ UNCHANGED NotMonitor

\* the condition does not hold: nothing is sent
MonitorNoAlert ==
    /\ monitor.pc = "observed"
    /\ ~xray_stopped(monitor.last_status, monitor.xray_running)
    /\ monitor' = [monitor EXCEPT !.pc = "assign", !.alerted = FALSE]
    /\ UNCHANGED NotMonitor

\* last_status = xray_running; the poll is over
MonitorAssign ==
    /\ monitor.pc = "assign"
    /\ monitor' = [monitor EXCEPT !.pc = "sleep",
                                  !.last_status = monitor.xray_running,
                                  !.observed = Append(@, monitor.xray_running),
                                  !.sent = Append(@, monitor.alerted),
                                  !.xray_running = "None", !.alerted = FALSE]
    /\ UNCHANGED NotMonitor

MonitorNext ==
    \/ MonitorWake \/ MonitorSkip \/ MonitorObserve \/ MonitorAlert
    \/ MonitorNoAlert \/ MonitorAssign

MonitorSpec == MonitorInit /\ [][MonitorNext]_vars

\* the i-th finished poll observed the proxy not running while the poll
\* immediately before it observed it running
StoppedSince(i) ==
    /\ i > 1
    /\ monitor.observed[i] = "False"
    /\ monitor.observed[i - 1] = "True"

\* C39: the status monitor sends an xray_stopped event exactly on a poll that
\* observes the proxy not running while the immediately preceding poll observed
\* it running: none on the first poll, none while the proxy stays stopped
\* across consecutive polls, and one again after each later running-to-stopped
\* transition; an event is handed to send_event once, whether or not it is
\* delivered.
C39_EdgeTriggeredAlert ==
    /\ Len(monitor.sent) = Len(monitor.observed)
    /\ \A i \in 1..Len(monitor.observed) : monitor.sent[i] <=> StoppedSince(i)
    /\ Len(monitor.delivered) =
           Cardinality({i \in 1..Len(monitor.sent) : monitor.sent[i]})
             + (IF monitor.pc = "assign" /\ monitor.alerted THEN 1 ELSE 0)
    /\ monitor.pc = "assign" =>
           (monitor.alerted <=>
               /\ monitor.xray_running = "False"
               /\ monitor.observed # <<>>
               /\ monitor.observed[Len(monitor.observed)] = "True")

\* C39 witness: five polls saw the proxy running, stopped, stopped, running,
\* stopped; the second and the fifth sent the event, the others none.
C39_Witness ==
    /\ monitor.pc = "sleep"
    /\ monitor.observed = <<"True", "False", "False", "True", "False">>
    /\ monitor.sent = <<FALSE, TRUE, FALSE, FALSE, TRUE>>
    /\ Len(monitor.delivered) = 2

====
